---- MODULE Spec2Model ----
(***************************************************************************)
(* A model of the extraction-and-navigation pipeline of backend/app.py:    *)
(* session acquisition and teardown, extract_product_reviews (bounded      *)
(* navigation retry, product-page shortcut, direct navigation to the       *)
(* reviews view, the page loop and the next-page cascade),                 *)
(* extract_product_details, and the search-reviews fan-out/aggregation.    *)
(*                                                                         *)
(* Every coroutine is a record task[t]; its field pc is the await point it *)
(* is suspended at.  Fields whose name starts with h_ are history fields:  *)
(* they record what the run did and are never read by the modelled code.   *)
(***************************************************************************)
EXTENDS Integers, Sequences, FiniteSets, TLC

VARIABLES task, batch

vars == <<task, batch>>

-----------------------------------------------------------------------------
(* Bounds of the model *)

\* max_pages is drawn from 1..MaxPagesBound
MaxPagesBound == 3
\* a page carries at most MaxEmpty containers whose body text is empty
MaxEmpty == 1
\* number of concurrent review tasks of a search-reviews batch
NumProducts == 2

-----------------------------------------------------------------------------
(* Program constants *)

\* safe_navigate(page, url, timeout=60000, max_retries=2)
max_retries == 2
\* tasks = [extract_product_reviews(product["url"], float('inf'), 3) ...]
BatchMaxPages == 3
\* float('inf'): larger than any number of reviews a modelled page can hold
INF == 1000000
\* number of entries of next_selectors
NumNextSelectors == 6
\* number of entries of review_selectors
NumReviewSelectors == 4
\* number of entries of text_selectors
NumTextSelectors == 4

-----------------------------------------------------------------------------
(* Documents.  A text is a sequence, <<>> being the empty string.  A       *)
(* container lists the review_selectors it matches and, per entry of       *)
(* text_selectors, the element select_one finds inside it (or none).       *)

NoEl == [present |-> FALSE, text |-> <<>>]

El(txt) == [present |-> TRUE, text |-> txt]

\* <li data-hook="review"> is matched by 'li[data-hook="review"]' (1) and
\* by '[data-hook="review"]' (3); its body is under [data-hook="review-body"]
LiReview(txt) == [matches |-> {1, 3}, text_els |-> <<El(txt), NoEl, NoEl, NoEl>>]

\* <div class="a-section review"> is matched by '.review' (2) and by
\* '.a-section.review' (4); its body is under .review-text-content
DivReview(txt) == [matches |-> {2, 4}, text_els |-> <<NoEl, El(txt), NoEl, NoEl>>]

\* the document of page p: e empty-bodied containers, then n containers with
\* the distinct body texts <<p, 1>> .. <<p, n>>
MkDoc(p, n, e) ==
    [i \in 1..(e + n) |-> IF i <= e THEN LiReview(<<>>) ELSE LiReview(<<p, i - e>>)]

\* a page whose reviews are <div class="a-section review"> blocks and that
\* also holds one stray empty <li data-hook="review">
MixedDoc(p, n) ==
    <<LiReview(<<>>)>> \o [i \in 1..n |-> DivReview(<<p, i>>)]

ReviewCounts == {0, 5, 10}

BatchReviewCounts == {5}

IsBatch == batch.handler = "search_reviews"

Counts == IF IsBatch THEN BatchReviewCounts ELSE ReviewCounts

Empties == IF IsBatch THEN {0} ELSE 0..MaxEmpty

PageDocs(p) ==
    {MkDoc(p, n, e) : n \in Counts, e \in Empties}
        \cup (IF IsBatch THEN {} ELSE {MixedDoc(p, 5)})

-----------------------------------------------------------------------------
(* extract_reviews_from_soup *)

Take(s, n) == IF n >= Len(s) THEN s ELSE SubSeq(s, 1, n)

\* soup.select(selector): the containers matching the selector, in document order
Select(soup, selector) == SelectSeq(soup, LAMBDA c : selector \in c.matches)

RECURSIVE MatchingOfAll(_, _)
\* the containers of every selector that matches are put together
MatchingOfAll(soup, selector) ==
    IF selector > NumReviewSelectors THEN <<>>
    ELSE Select(soup, selector)
             \o SelectSeq(MatchingOfAll(soup, selector + 1),
                          LAMBDA c : selector \notin c.matches)

RECURSIVE FirstMatching(_, _)
\* for selector in review_selectors: containers = soup.select(selector);
\* if containers: review_containers = containers; break
FirstMatching(soup, selector) ==
    IF selector > NumReviewSelectors THEN <<>>
    ELSE IF Select(soup, selector) # <<>> THEN Select(soup, selector)
    ELSE FirstMatching(soup, selector + 1)

RECURSIVE ReviewText(_, _)
\* for selector in text_selectors: text_el = review.select_one(selector);
\* if text_el: review_text = text_el.get_text(strip=True); break
ReviewText(review, selector) ==
    IF selector > NumTextSelectors THEN <<>>
    ELSE IF review.text_els[selector].present THEN review.text_els[selector].text
    ELSE ReviewText(review, selector + 1)

RECURSIVE CollectReviewsKeepEmpty(_)
\* every container is appended, whatever its text
CollectReviewsKeepEmpty(containers) ==
    IF containers = <<>> THEN <<>>
    ELSE <<[text |-> ReviewText(Head(containers), 1)]>>
             \o CollectReviewsKeepEmpty(Tail(containers))

RECURSIVE CollectReviews(_)
\* if review_text: reviews.append({... "text": review_text ...})
CollectReviews(containers) ==
    IF containers = <<>> THEN <<>>
    ELSE (IF ReviewText(Head(containers), 1) # <<>>
          THEN <<[text |-> ReviewText(Head(containers), 1)]>>
          ELSE <<>>) \o CollectReviews(Tail(containers))

\* max_reviews is <<>> for None and <<n>> for the cap n
extract_reviews_from_soup(soup, max_reviews) ==
    LET review_containers == FirstMatching(soup, 1)
        containers_to_process ==
            IF max_reviews # <<>> THEN Take(review_containers, max_reviews[1])
            ELSE review_containers
    IN  CollectReviews(containers_to_process)

-----------------------------------------------------------------------------
(* Results and outcomes *)

NoOutcome == [kind |-> "none"]

Returned(r) == [kind |-> "returned", value |-> r]

Raised(e) == [kind |-> "raised", error |-> e]

Get(r, k, d) == IF k \in DOMAIN r THEN r[k] ELSE d

\* return {"url":..., "reviews": [], "success": False,
\*         "error": "Failed to load product page", "pages_scraped": 0}
LoadFailedResult(s) ==
    [url |-> s.url, reviews |-> <<>>, success |-> FALSE,
     error |-> "Failed to load product page", pages_scraped |-> 0]

\* except Exception as e: return {"url":..., "reviews": [], "success": False,
\*                                "error": str(e), "pages_scraped": 0}
ExceptionResult(s, e) ==
    [url |-> s.url, reviews |-> <<>>, success |-> FALSE,
     error |-> e, pages_scraped |-> 0]

\* the result built when max_pages == 1 and the product page has reviews
ProductPageResult(s, product_page_reviews) ==
    [url |-> s.url, total_reviews_found |-> Len(product_page_reviews),
     reviews |-> product_page_reviews, success |-> TRUE,
     source |-> "product_page", pages_scraped |-> 1]

\* the result built after the page loop
ReviewsPageResult(s) ==
    [url |-> s.url, total_reviews_found |-> Len(s.all_reviews),
     reviews |-> s.all_reviews, success |-> TRUE,
     source |-> "reviews_page", pages_scraped |-> s.pages_scraped]

-----------------------------------------------------------------------------
(* Tasks *)

UrlShapes == {"dp", "gp_product", "product_reviews"}

\* get_browser and auto_login_amazon: their locals (cookies_loaded,
\* signin_clicked, the selector index of the running cascade, the poll
\* counter i, login_detected, the value auto_login_amazon returned) and the
\* history of the authentication attempt
NoGb ==
    [cookies_loaded |-> FALSE, signin_clicked |-> FALSE, idx |-> 0, i |-> 0,
     login_detected |-> FALSE, login_success |-> <<>>,
     h_status |-> "none", h_fast |-> FALSE, h_validated |-> <<>>,
     h_gotos |-> 0, h_clicks |-> 0, h_email_fills |-> 0, h_password_fills |-> 0,
     h_submits |-> 0, h_exhausted |-> FALSE, h_writes |-> 0, h_steps |-> <<>>,
     h_evidence |-> "none"]

NewTask(o, u, mr, mp) ==
    [op |-> o, url |-> u, max_reviews |-> mr, max_pages |-> mp,
     pc |-> "get_browser",
     browser |-> FALSE, playwright |-> FALSE,
     proc |-> "none", drv |-> "none",
     attempt |-> 0,
     page_num |-> 0, all_reviews |-> <<>>, pages_scraped |-> 0,
     sel |-> 0,
     pending |-> NoOutcome, outcome |-> NoOutcome,
     h_err |-> "none", h_terminal |-> "none",
     h_navs |-> 0,
     h_pp_seen |-> FALSE, h_pp_valid |-> 0,
     h_reviews_nav |-> FALSE, h_on_reviews |-> FALSE,
     h_iter |-> 0, h_chain |-> <<>>, h_gathered |-> <<>>,
     h_order |-> <<>>, h_seen |-> {}, h_clicked |-> <<>>,
     h_teardown_err |-> FALSE,
     gb |-> NoGb]

Tasks == DOMAIN task

Put(t, s) == task' = [task EXCEPT ![t] = s]

-----------------------------------------------------------------------------
(* get_browser.  The outcomes of one call: it returns the session, or it   *)
(* raises before the driver is started, after the driver is started (the   *)
(* launch fails), or after the browser is launched (new_context, new_page, *)
(* page.evaluate, or the page.goto of session validation or of login).     *)

GbOutcomes ==
    IF IsBatch THEN {"ok", "raises_after_launch"}
    ELSE {"ok", "start_raises", "launch_raises", "raises_after_launch"}

\* what the call has started by the time it ends with outcome o
Launched(s, o) ==
    [s EXCEPT !.drv  = IF o = "start_raises" THEN "none" ELSE "started",
              !.proc = IF o \in {"ok", "raises_after_launch"} THEN "open" ELSE "none"]

\* browser, playwright, page = await get_browser(headless=False): the names
\* are bound only when the call returns
Bind(s) == [s EXCEPT !.browser = TRUE, !.playwright = TRUE]

\* extract_product_reviews: get_browser is called inside the try block
ReviewsGetBrowser(s, o) ==
    IF o = "ok"
    THEN [Bind(Launched(s, o)) EXCEPT !.pc = "navigate"]
    ELSE [Launched(s, o) EXCEPT !.pc = "finally",
                                !.pending = Returned(ExceptionResult(s, o)),
                                !.h_err = "pipeline_exception",
                                !.h_terminal = "exception"]

\* extract_product_details: get_browser is called before the try block
DetailsGetBrowser(s, o) ==
    IF o = "ok"
    THEN [Bind(Launched(s, o)) EXCEPT !.pc = "d_goto"]
    ELSE [Launched(s, o) EXCEPT !.pc = "done", !.outcome = Raised(o),
                                !.h_err = "pipeline_exception"]

\* what auth_status answers when its try block raised
StatusErrorResponse(e) ==
    [enabled |-> FALSE, is_logged_in |-> FALSE, error |-> e, success |-> FALSE]

\* auth_status: get_browser is called inside the try block
StatusGetBrowser(s, o) ==
    IF o = "ok"
    THEN [Bind(Launched(s, o)) EXCEPT !.pc = "as_check"]
    ELSE [Launched(s, o) EXCEPT !.pc = "as_finally",
                                !.pending = Returned(StatusErrorResponse(o))]

GetBrowser(t) ==
    /\ task[t].pc = "get_browser"
    /\ \E o \in GbOutcomes :
         Put(t, IF task[t].op = "reviews" THEN ReviewsGetBrowser(task[t], o)
                ELSE DetailsGetBrowser(task[t], o))
    /\ UNCHANGED batch

-----------------------------------------------------------------------------
(* safe_navigate(page, product_url, timeout=60000) *)

\* except Exception: if attempt < max_retries: await human_delay(2000, 4000); continue
RetryAfterFailure(attempt) == attempt < max_retries

\* one iteration of "for attempt in range(max_retries + 1)"; attempt is a
\* local of the call, and h_navs keeps the attempts of a call that gave up
safe_navigate(s, ok) ==
    IF ok
    THEN [s EXCEPT !.pc = "product_page", !.attempt = 0]
    ELSE IF RetryAfterFailure(s.attempt)
    THEN [s EXCEPT !.attempt = @ + 1]
    ELSE [s EXCEPT !.pc = "finally", !.attempt = 0, !.h_navs = s.attempt + 1,
                   !.pending = Returned(LoadFailedResult(s)),
                   !.h_err = "nav_failed", !.h_terminal = "nav_failed"]

NavigateProductPage(t) ==
    /\ task[t].pc = "navigate"
    /\ \E ok \in BOOLEAN : Put(t, safe_navigate(task[t], ok))
    /\ UNCHANGED batch

-----------------------------------------------------------------------------
(* extract_product_reviews: the product page (lines 658-797) *)

\* the page's container set is that of the first review selector that matches;
\* a valid review is a container of it whose body text is not empty
ValidCount(doc) ==
    LET cs == FirstMatching(doc, 1)
    IN  Cardinality({i \in 1..Len(cs) : ReviewText(cs[i], 1) # <<>>})

\* the shortcut is never taken
ProductPageOnlyNever(max_pages, product_page_reviews) == FALSE

\* if max_pages == 1 and product_page_reviews:
ProductPageOnly(max_pages, product_page_reviews) ==
    max_pages = 1 /\ product_page_reviews # <<>>

\* soup = BeautifulSoup(await page.content(), ...);
\* product_page_reviews = extract_reviews_from_soup(soup)
product_page(s, doc) ==
    LET product_page_reviews == extract_reviews_from_soup(doc, <<>>)
        seen == [s EXCEPT !.h_pp_seen = TRUE,
                          !.h_pp_valid = IF s.max_pages = 1 THEN ValidCount(doc) ELSE 0]
    IN  IF ProductPageOnly(s.max_pages, product_page_reviews)
        THEN [seen EXCEPT !.pc = "finally",
                          !.pending = Returned(ProductPageResult(s, product_page_reviews)),
                          !.h_terminal = "product_page"]
        ELSE [seen EXCEPT !.pc = "direct_nav"]

\* page.content() raises: the outer except builds the result
product_page_raises(s) ==
    [s EXCEPT !.pc = "finally",
              !.pending = Returned(ExceptionResult(s, "content_raises")),
              !.h_err = "pipeline_exception", !.h_terminal = "exception"]

ProductPage(t) ==
    /\ task[t].pc = "product_page"
    /\ \/ \E doc \in PageDocs(0) : Put(t, product_page(task[t], doc))
       \/ /\ ~IsBatch
          /\ Put(t, product_page_raises(task[t]))
    /\ UNCHANGED batch

-----------------------------------------------------------------------------
(* extract_product_reviews: direct navigation to the reviews view (799-855) *)

\* re.search(r'/dp/([A-Z0-9]+)', product_url)
product_id_match(url) == url = "dp"

\* goto_ok: page.goto(reviews_url) returned; an exception of the block is caught
direct_navigation(s, goto_ok) ==
    IF s.url = "product_reviews"
    THEN [s EXCEPT !.pc = "scrape", !.page_num = 1, !.h_on_reviews = TRUE]
    ELSE IF product_id_match(s.url)
    THEN [s EXCEPT !.pc = "scrape", !.page_num = 1,
                   !.h_reviews_nav = TRUE, !.h_on_reviews = goto_ok]
    ELSE [s EXCEPT !.pc = "scrape", !.page_num = 1]

DirectNavigation(t) ==
    /\ task[t].pc = "direct_nav"
    /\ \E goto_ok \in (IF IsBatch THEN {TRUE} ELSE BOOLEAN) :
         Put(t, direct_navigation(task[t], goto_ok))
    /\ UNCHANGED batch

-----------------------------------------------------------------------------
(* extract_product_reviews: the page loop (857-939) *)

\* the loop is left: result = {...}; return result
EndLoop(s, reason) ==
    [s EXCEPT !.pc = "finally", !.pending = Returned(ReviewsPageResult(s)),
              !.h_terminal = reason]

\* all_reviews = page_reviews instead of all_reviews.extend(page_reviews)
AccumulateOverwrite(s, page_reviews) ==
    IF page_reviews # <<>>
    THEN [s EXCEPT !.all_reviews = page_reviews, !.pages_scraped = @ + 1]
    ELSE s

\* pages_scraped += 1 stands after the if, not in it
AccumulateCountsEveryPage(s, page_reviews) ==
    IF page_reviews # <<>>
    THEN [s EXCEPT !.all_reviews = @ \o page_reviews, !.pages_scraped = @ + 1]
    ELSE [s EXCEPT !.pages_scraped = @ + 1]

\* if page_reviews: all_reviews.extend(page_reviews); pages_scraped += 1
Accumulate(s, page_reviews) ==
    IF page_reviews # <<>>
    THEN [s EXCEPT !.all_reviews = @ \o page_reviews, !.pages_scraped = @ + 1]
    ELSE s

\* page_num <= max_pages instead of page_num < max_pages
WantsNextPageOffByOne(page_num, max_pages) == page_num <= max_pages

\* if page_num < max_pages: look for the next page button
WantsNextPage(page_num, max_pages) == page_num < max_pages

\* one iteration of "for page_num in range(1, max_pages + 1)" up to the
\* search for the next page button
scrape_page(s, doc) ==
    LET page_reviews == extract_reviews_from_soup(doc, <<>>)
        acc == [Accumulate(s, page_reviews) EXCEPT
                   !.h_iter = @ + 1,
                   !.h_chain = Append(@, Len(page_reviews)),
                   !.h_gathered = @ \o page_reviews]
    IN  IF WantsNextPage(s.page_num, s.max_pages)
        THEN [acc EXCEPT !.pc = "locate_next", !.sel = 1,
                         !.h_order = <<>>, !.h_seen = {}]
        ELSE EndLoop(acc, "max_pages_reached")

\* except Exception as e: logger.error("Error scraping page ..."); break
scrape_page_raises(s) ==
    EndLoop([s EXCEPT !.h_iter = @ + 1, !.h_err = "page_exception"], "page_error")

ScrapePage(t) ==
    /\ task[t].pc = "scrape"
    /\ \/ \E doc \in PageDocs(task[t].page_num) : Put(t, scrape_page(task[t], doc))
       \/ Put(t, scrape_page_raises(task[t]))
    /\ UNCHANGED batch

-----------------------------------------------------------------------------
(* the next-page cascade (887-923).  A control is what page.locator(selector) *)
(* finds: nothing, an element whose inspection raises, or an element with   *)
(* its class, its parent's class and the result of clicking it.            *)

Control(present, raises, button_disabled, parent_disabled, click_ok) ==
    [present |-> present, raises |-> raises, button_disabled |-> button_disabled,
     parent_disabled |-> parent_disabled, click_ok |-> click_ok]

Absent == Control(FALSE, FALSE, FALSE, FALSE, FALSE)

Controls ==
    IF IsBatch
    THEN {Control(TRUE, FALSE, FALSE, FALSE, TRUE)}
    ELSE {Absent, Control(TRUE, TRUE, FALSE, FALSE, FALSE)}
         \cup {Control(TRUE, FALSE, b, p, c) : b \in BOOLEAN, p \in BOOLEAN, c \in BOOLEAN}

\* the parent's class is not looked at
IsEnabledButtonOnly(c) == ~c.button_disabled

\* if 'a-disabled' not in button_class and 'a-disabled' not in parent_class:
IsEnabled(c) == ~c.button_disabled /\ ~c.parent_disabled

\* if await next_button.count() > 0: ... (an exception skips to the next selector)
Clickable(c) == c.present /\ ~c.raises /\ IsEnabled(c)

\* "for selector in next_selectors": the selector tried after selector sel
NextSelector(sel) == sel + 1

\* what the history keeps of a probed control: whether it is marked disabled
Seen(c) ==
    IF ~c.present THEN {}
    ELSE IF c.raises THEN {"raised"}
    ELSE IF c.button_disabled \/ c.parent_disabled THEN {"disabled"}
    ELSE {"enabled"}

\* one iteration of "for selector in next_selectors" on the control c found
locate_next(s, c) ==
    LET probed == [s EXCEPT !.h_order = Append(@, s.sel), !.h_seen = @ \cup Seen(c)]
        clicked == IF Clickable(c)
                   THEN [probed EXCEPT !.h_clicked = <<c>>]
                   ELSE probed
    IN  IF Clickable(c) /\ c.click_ok
        THEN [clicked EXCEPT !.pc = "scrape", !.page_num = @ + 1]
        ELSE IF s.sel < NumNextSelectors
        THEN [clicked EXCEPT !.sel = NextSelector(@)]
        ELSE EndLoop(clicked, "end_of_results")

LocateNext(t) ==
    /\ task[t].pc = "locate_next"
    /\ \E c \in Controls : Put(t, locate_next(task[t], c))
    /\ UNCHANGED batch

-----------------------------------------------------------------------------
(* extract_product_details (961-1082).  The document is kept as the fields *)
(* the selector cascades resolve on it.                                     *)

DetailFields ==
    {[title |-> <<>>, price |-> <<>>, rating |-> <<>>, review_count |-> <<>>],
     [title |-> <<1>>, price |-> <<2>>, rating |-> <<3>>, review_count |-> <<4>>]}

\* result = {"url":..., "title":..., "price":..., "rating":...,
\*           "review_count":..., "success": True}
DetailsResult(s, f) ==
    [url |-> s.url, title |-> f.title, price |-> f.price, rating |-> f.rating,
     review_count |-> f.review_count, success |-> TRUE]

\* except Exception as e: return {..., "success": False, "error": str(e)}
DetailsErrorResult(s, e) ==
    [url |-> s.url, title |-> <<>>, price |-> <<>>, rating |-> <<>>,
     review_count |-> <<>>, success |-> FALSE, error |-> e]

DetailsBody(t) ==
    /\ task[t].pc = "d_goto"
    /\ \/ \E f \in DetailFields :
            Put(t, [task[t] EXCEPT !.pc = "finally",
                                   !.pending = Returned(DetailsResult(task[t], f))])
       \/ Put(t, [task[t] EXCEPT !.pc = "finally",
                                 !.pending = Returned(DetailsErrorResult(task[t], "goto_raises")),
                                 !.h_err = "pipeline_exception"])
    /\ UNCHANGED batch

-----------------------------------------------------------------------------
(* The finally blocks.                                                      *)
(*   extract_product_reviews (950-958):  try: if browser: close();          *)
(*       if playwright: stop()  except Exception: log                       *)
(*   extract_product_details (1080-1082): close(); stop()                   *)

\* the finally block catches what close() and stop() raise
TeardownGuarded(op) == op = "reviews"

\* the return value (or exception) chosen before the finally block stands
Complete(s) == [s EXCEPT !.pc = "done", !.outcome = s.pending]

\* an exception leaves a finally block that does not catch it
Escapes(s, e) == [s EXCEPT !.pc = "done", !.outcome = Raised(e)]

\* await browser.close()
teardown_close(s, ok) ==
    IF ~s.browser
    THEN (IF s.playwright THEN [s EXCEPT !.pc = "finally_stop"] ELSE Complete(s))
    ELSE IF ok
    THEN [s EXCEPT !.proc = "closed", !.pc = "finally_stop"]
    ELSE LET f == [s EXCEPT !.proc = "close_failed", !.h_teardown_err = TRUE]
         IN  IF TeardownGuarded(s.op) THEN Complete(f) ELSE Escapes(f, "close_raises")

\* await playwright.stop()
teardown_stop(s, ok) ==
    IF ~s.playwright THEN Complete(s)
    ELSE IF ok
    THEN Complete([s EXCEPT !.drv = "stopped"])
    ELSE LET f == [s EXCEPT !.drv = "stop_failed", !.h_teardown_err = TRUE]
         IN  IF TeardownGuarded(s.op) THEN Complete(f) ELSE Escapes(f, "stop_raises")

CloseBrowser(t) ==
    /\ task[t].pc = "finally"
    /\ \E ok \in BOOLEAN : Put(t, teardown_close(task[t], ok))
    /\ UNCHANGED batch

StopDriver(t) ==
    /\ task[t].pc = "finally_stop"
    /\ \E ok \in (IF IsBatch THEN {TRUE} ELSE BOOLEAN) :
         Put(t, teardown_stop(task[t], ok))
    /\ UNCHANGED batch

-----------------------------------------------------------------------------
(* Specification of one operation: the product-reviews handler (1616-1618) *)
(* runs extract_product_reviews on its inputs; extract_product_details is  *)
(* run on one product URL.                                                  *)

MaxReviewsInputs == {1, 50}

\* AUTO_AUTH_CONFIG: enabled, empty credentials, persistent session
AUTO_AUTH_CONFIG ==
    [enabled |-> TRUE, email |-> <<>>, password |-> <<>>, persistent_session |-> TRUE]

\* os.path.exists(session_file) is false
NoSessionFile == [exists |-> FALSE]

\* besides the handler's own state, batch holds the two files the program
\* keeps next to it: auth_config.json (merged over AUTO_AUTH_CONFIG) and the
\* session file
Idle == [handler |-> "single", pc |-> "idle", products |-> <<>>,
         response |-> NoOutcome,
         auth_config |-> AUTO_AUTH_CONFIG, session_file |-> NoSessionFile]

Init ==
    /\ batch = Idle
    /\ \E u \in UrlShapes :
         \/ \E mr \in MaxReviewsInputs, mp \in 1..MaxPagesBound :
              task = [t \in {1} |-> NewTask("reviews", u, mr, mp)]
         \/ task = [t \in {1} |-> NewTask("details", u, 0, 0)]

Next ==
    \/ \E t \in Tasks : GetBrowser(t)
    \/ \E t \in Tasks : NavigateProductPage(t)
    \/ \E t \in Tasks : ProductPage(t)
    \/ \E t \in Tasks : DirectNavigation(t)
    \/ \E t \in Tasks : ScrapePage(t)
    \/ \E t \in Tasks : LocateNext(t)
    \/ \E t \in Tasks : DetailsBody(t)
    \/ \E t \in Tasks : CloseBrowser(t)
    \/ \E t \in Tasks : StopDriver(t)

Spec == Init /\ [][Next]_vars

-----------------------------------------------------------------------------
(* search-reviews: the fan-out over the filtered products and the          *)
(* aggregation of the results (1825-1876)                                   *)

\* review_results[i] when task i raised: the products entry built from it
FailedEntry(i, e) ==
    [product |-> i, reviews_count |-> 0, reviews |-> <<>>, success |-> FALSE,
     error |-> e]

\* reviews_count is read from pages_scraped
ResultEntryCountsPages(i, result) ==
    [product |-> i,
     reviews_count |-> Get(result, "pages_scraped", 0),
     reviews |-> Get(result, "reviews", <<>>),
     success |-> Get(result, "success", FALSE)]

\* review_results[i] when task i returned a result
ResultEntry(i, result) ==
    [product |-> i,
     reviews_count |-> Get(result, "total_reviews_found", 0),
     reviews |-> Get(result, "reviews", <<>>),
     success |-> Get(result, "success", FALSE)]

\* one iteration of "for i, result in enumerate(review_results)"
ProductEntry(i, outcome) ==
    IF outcome.kind = "raised" THEN FailedEntry(i, outcome.error)
    ELSE ResultEntry(i, outcome.value)

\* asyncio.gather(*tasks, return_exceptions=True): every task's outcome, in
\* the order of the tasks
review_results(tasks) == [i \in 1..Len(tasks) |-> tasks[i].outcome]

\* the loop gives up at the first result that is not a success: the entries
\* from there on are reported failed and empty
BuildProductsAbort(results) ==
    [i \in 1..Len(results) |->
        IF \E j \in 1..i : results[j].kind = "raised" \/ ~Get(results[j].value, "success", FALSE)
        THEN FailedEntry(i, "aborted")
        ELSE ProductEntry(i, results[i])]

\* products, as built by the loop over review_results
BuildProducts(results) == [i \in 1..Len(results) |-> ProductEntry(i, results[i])]

RECURSIVE SumReviews(_, _)
\* total_reviews += reviews_count, for the results that are not exceptions
SumReviews(products, results) ==
    IF products = <<>> THEN 0
    ELSE (IF Head(results).kind = "raised" THEN 0 ELSE Head(products).reviews_count)
         + SumReviews(Tail(products), Tail(results))

AggregateResponse(results) ==
    LET products == BuildProducts(results)
    IN  [total_products |-> Len(products),
         total_reviews |-> SumReviews(products, results),
         products |-> products, success |-> TRUE]

TaskSeq == [i \in 1..Cardinality(Tasks) |-> task[i]]

\* review_results = await asyncio.gather(...) resumes when every task is done
Aggregate ==
    /\ batch.pc = "gather"
    /\ \A t \in Tasks : task[t].pc = "done"
    /\ batch' = [batch EXCEPT !.pc = "done",
                              !.response = Returned(AggregateResponse(review_results(TaskSeq)))]
    /\ UNCHANGED task

BatchInit ==
    /\ batch = [handler |-> "search_reviews", pc |-> "gather", products |-> <<>>,
                response |-> NoOutcome,
                auth_config |-> AUTO_AUTH_CONFIG, session_file |-> NoSessionFile]
    /\ task = [t \in 1..NumProducts |-> NewTask("reviews", "dp", INF, BatchMaxPages)]

BatchNext ==
    \/ \E t \in Tasks : GetBrowser(t)
    \/ \E t \in Tasks : NavigateProductPage(t)
    \/ \E t \in Tasks : ProductPage(t)
    \/ \E t \in Tasks : DirectNavigation(t)
    \/ \E t \in Tasks : ScrapePage(t)
    \/ \E t \in Tasks : LocateNext(t)
    \/ \E t \in Tasks : CloseBrowser(t)
    \/ \E t \in Tasks : StopDriver(t)
    \/ Aggregate

SpecBatch == BatchInit /\ [][BatchNext]_vars

-----------------------------------------------------------------------------
(* Session acquisition in detail: get_browser (1085-1250) with              *)
(* load_session_cookies and save_session_cookies (135-172), and            *)
(* auto_login_amazon (175-567).  In the specifications above one call of   *)
(* get_browser is a single step with its outcome chosen; here the call is  *)
(* followed await by await, and its outcome is handed to the same callers. *)

\* for i in range(30)
PollIterations == 30
\* number of entries of signin_selectors
NumSigninSelectors == 12
\* number of entries of alt_selectors
NumAltSelectors == 6
\* number of entries of email_selectors
NumEmailSelectors == 5
\* number of entries of continue_selectors
NumContinueSelectors == 5
\* number of entries of password_selectors
NumPasswordSelectors == 5
\* number of entries of signin_btn_selectors
NumSigninBtnSelectors == 8

\* the text of the account region (#nav-link-accountList), kept as the
\* phrases the code looks for in it
NoIndicator == [present |-> FALSE, words |-> {}]

Indicator(words) == [present |-> TRUE, words |-> words]

\* nothing; "Hello, Ann  Account & Lists"; "Hello, sign in  Account & Lists";
\* "Account & Lists"
AccountTexts ==
    {NoIndicator, Indicator({"Hello", "Account"}),
     Indicator({"Hello", "sign in", "Account"}), Indicator({"Account"})}

\* account_text and 'Hello' in account_text and 'sign in' not in account_text.lower()
SignedIn(a) == a.present /\ "Hello" \in a.words /\ "sign in" \notin a.words

\* if account_text and 'Hello' in account_text  (the check after a URL change)
UrlChangeSignedIn(a) == a.present /\ "Hello" \in a.words

\* account_text and ('Hello' in account_text or 'Account' in account_text)
\*              and 'sign in' not in account_text.lower()
FinalSignedIn(a) ==
    a.present /\ ("Hello" \in a.words \/ "Account" \in a.words) /\ "sign in" \notin a.words

\* the session file: {'cookies': [...], 'timestamp': ...}
SessionFile(cookies, timestamp) ==
    [exists |-> TRUE, cookies |-> cookies, timestamp |-> timestamp]

\* a file that open(session_file, 'w') truncated and json.dump did not fill
TruncatedFile == SessionFile(<<>>, "unreadable")

\* what save_session_cookies writes when it succeeds
SavedNow == SessionFile(<<"current">>, "now")

\* timedelta(hours=24)
SessionMaxAgeHours == 24

\* datetime.now() - saved_time, in hours, for the timestamps a file may carry
AgeHours(timestamp) ==
    CASE timestamp = "now" -> 0
      [] timestamp = "fresh" -> 1
      [] timestamp = "day_old" -> SessionMaxAgeHours
      [] timestamp = "stale" -> SessionMaxAgeHours + 1

\* a file without a timestamp ("none"), or saved an hour, exactly 24 hours,
\* or 25 hours ago
SessionFiles ==
    {NoSessionFile, SessionFile(<<"saved">>, "fresh"), SessionFile(<<"saved">>, "day_old"),
     SessionFile(<<"saved">>, "stale"), SessionFile(<<"saved">>, "none")}

AuthConfigs ==
    {[enabled |-> e, email |-> em, password |-> pw, persistent_session |-> ps] :
        e \in BOOLEAN, em \in {<<>>, <<"email">>}, pw \in {<<>>, <<"password">>},
        ps \in BOOLEAN}

\* load_auth_config(): the merged configuration
load_auth_config == batch.auth_config

\* the age of the file is not looked at
load_session_cookies_any_age(file) ==
    IF ~file.exists THEN <<>>
    ELSE IF file.timestamp = "unreadable" THEN <<>>
    ELSE file.cookies

\* load_session_cookies(): [] when the file is missing, unreadable or older
\* than 24 hours, else its cookies
load_session_cookies(file) ==
    IF ~file.exists THEN <<>>
    ELSE IF file.timestamp = "unreadable" THEN <<>>
    ELSE IF file.timestamp # "none" /\ AgeHours(file.timestamp) > SessionMaxAgeHours THEN <<>>
    ELSE file.cookies

\* save_session_cookies(cookies): the file after the call; written = "ok",
\* "open_fails" (the file is left alone) or "dump_fails" (it was truncated)
save_session_cookies(file, written) ==
    IF written = "ok" THEN SavedNow
    ELSE IF written = "dump_fails" THEN TruncatedFile
    ELSE file

SaveOutcomes == {"ok", "open_fails", "dump_fails"}

\* the names of the steps of a login, in the order h_steps is compared with
StepRank(step) ==
    CASE step = "home" -> 1
      [] step = "signin_click" -> 2
      [] step = "email" -> 3
      [] step = "continue" -> 4
      [] step = "password" -> 5
      [] step = "submit" -> 6
      [] step = "poll" -> 7

\* the history of steps, a repeated step being kept once
Did(g, step) ==
    IF g.h_steps # <<>> /\ g.h_steps[Len(g.h_steps)] = step THEN g
    ELSE [g EXCEPT !.h_steps = Append(@, step)]

\* an exception leaves get_browser after the browser was launched
GbRaise(s, status) ==
    LET r == [s EXCEPT !.gb.h_status = status]
    IN  IF s.op = "reviews" THEN ReviewsGetBrowser(r, "raises_after_launch")
        ELSE IF s.op = "auth_status" THEN StatusGetBrowser(r, "raises_after_launch")
        ELSE DetailsGetBrowser(r, "raises_after_launch")

\* return browser, playwright, page
GbReturn(s, status) ==
    LET r == [s EXCEPT !.gb.h_status = status]
    IN  IF s.op = "reviews" THEN ReviewsGetBrowser(r, "ok")
        ELSE IF s.op = "auth_status" THEN StatusGetBrowser(r, "ok")
        ELSE DetailsGetBrowser(r, "ok")

\* auto_login_amazon returns success (its locals are gone); get_browser logs
\* it and returns
LoginReturn(s, success, status) ==
    GbReturn([s EXCEPT !.gb.login_success = <<success>>,
                       !.gb.signin_clicked = FALSE, !.gb.idx = 0, !.gb.i = 0,
                       !.gb.login_detected = FALSE], status)

\* playwright = await async_playwright().start(); browser = await ...launch(...)
gb_launch(s, o) ==
    IF o = "ok" THEN [Launched(s, o) EXCEPT !.pc = "gb_cookies"]
    ELSE IF s.op = "reviews" THEN ReviewsGetBrowser(s, o)
    ELSE IF s.op = "auth_status" THEN StatusGetBrowser(s, o)
    ELSE DetailsGetBrowser(s, o)

GbLaunch(t) ==
    /\ task[t].pc = "gb_launch"
    /\ \E o \in {"ok", "start_raises", "launch_raises", "raises_after_launch"} :
         Put(t, gb_launch(task[t], o))
    /\ UNCHANGED batch

\* every caller asks for the login
AutoLoginAlways(s) == TRUE

\* the auto_login argument: auth_status passes False (2021), the other
\* callers leave the default True
AutoLogin(s) == s.op # "auth_status"

\* lines 1162-1216: the saved cookies are restored, the page is created, and
\* the login is entered when auto_login and auth_config['enabled']
gb_cookies(s, auth_config, file, add_ok, page_ok) ==
    LET saved_cookies ==
            IF auth_config.enabled /\ auth_config.persistent_session
            THEN load_session_cookies(file) ELSE <<>>
        cookies_loaded == saved_cookies # <<>> /\ add_ok
        r == [s EXCEPT !.gb.cookies_loaded = cookies_loaded]
    IN  IF ~page_ok THEN GbRaise(r, "none")
        ELSE IF AutoLogin(s) /\ auth_config.enabled
        THEN [r EXCEPT !.pc = IF cookies_loaded THEN "gb_validate" ELSE "gb_goto"]
        ELSE GbReturn(r, "anonymous")

GbCookies(t) ==
    /\ task[t].pc = "gb_cookies"
    /\ \E add_ok \in BOOLEAN, page_ok \in BOOLEAN :
         Put(t, gb_cookies(task[t], load_auth_config, batch.session_file, add_ok, page_ok))
    /\ UNCHANGED batch

\* the fast path is never taken
FastPathNever(cookies_loaded, account) == FALSE

\* lines 1218-1232: with restored cookies, a signed-in account region ends
\* get_browser
FastPath(cookies_loaded, account) == cookies_loaded /\ SignedIn(account)

\* await page.goto("https://www.amazon.com", timeout=10000) and the quick check
gb_validate(s, goto_ok, account) ==
    IF ~goto_ok THEN GbRaise(s, "navigation_error")
    ELSE LET r == [s EXCEPT !.gb.h_gotos = @ + 1,
                            !.gb.h_validated = <<SignedIn(account)>>]
         IN  IF FastPath(s.gb.cookies_loaded, account)
             THEN GbReturn([r EXCEPT !.gb.h_fast = TRUE], "authenticated")
             ELSE [r EXCEPT !.pc = "gb_goto"]

GbValidate(t) ==
    /\ task[t].pc = "gb_validate"
    /\ \E goto_ok \in BOOLEAN, account \in AccountTexts :
         Put(t, gb_validate(task[t], goto_ok, account))
    /\ UNCHANGED batch

\* await page.goto("https://www.amazon.com", timeout=15000) before the login
gb_goto(s, goto_ok) ==
    IF ~goto_ok THEN GbRaise(s, "navigation_error")
    ELSE [s EXCEPT !.pc = "al_entry", !.gb.h_gotos = @ + 1]

GbGoto(t) ==
    /\ task[t].pc = "gb_goto"
    /\ \E goto_ok \in BOOLEAN : Put(t, gb_goto(task[t], goto_ok))
    /\ UNCHANGED batch

-----------------------------------------------------------------------------
(* auto_login_amazon (175-567) *)

\* lines 176-199: the entry guard and the quick check of the account region
al_entry(s, auth_config, account) ==
    IF ~auth_config.enabled THEN LoginReturn(s, FALSE, "anonymous")
    ELSE IF auth_config.email = <<>> \/ auth_config.password = <<>>
    THEN LoginReturn(s, FALSE, "anonymous")
    ELSE IF SignedIn(account) THEN LoginReturn(s, TRUE, "authenticated")
    ELSE [s EXCEPT !.pc = "al_home"]

AlEntry(t) ==
    /\ task[t].pc = "al_entry"
    /\ \E account \in AccountTexts : Put(t, al_entry(task[t], load_auth_config, account))
    /\ UNCHANGED batch

\* except Exception as e: logger.error("Auto login failed"); return False
LoginFails(s) == LoginReturn(s, FALSE, "failed")

\* await page.goto("https://www.amazon.com", timeout=20000) ... human_scroll
al_home(s, ok) ==
    IF ok
    THEN [s EXCEPT !.pc = "al_signin", !.gb = Did([@ EXCEPT !.idx = 1, !.h_gotos = @ + 1], "home")]
    ELSE LoginFails(s)

AlHome(t) ==
    /\ task[t].pc = "al_home"
    /\ \E ok \in BOOLEAN : Put(t, al_home(task[t], ok))
    /\ UNCHANGED batch

\* what a candidate locator of a click cascade gives: no element, an element
\* that is clicked, or an exception
ClickKinds == {"absent", "clicks", "raises"}

\* what a candidate locator of a fill cascade gives: wait_for_selector and
\* fill succeed, or one of them raises
FillKinds == {"fills", "raises"}

\* the sign-in affordance was clicked
SigninClicked(g) == Did([g EXCEPT !.signin_clicked = TRUE, !.h_clicks = @ + 1], "signin_click")

\* one iteration of "for selector in signin_selectors"
al_signin(s, c) ==
    IF c = "clicks"
    THEN [s EXCEPT !.pc = "al_errpage", !.gb = SigninClicked([@ EXCEPT !.idx = 0])]
    ELSE IF s.gb.idx < NumSigninSelectors
    THEN [s EXCEPT !.gb.idx = @ + 1]
    ELSE [s EXCEPT !.pc = "al_alt", !.gb.idx = 1]

AlSignin(t) ==
    /\ task[t].pc = "al_signin"
    /\ \E c \in ClickKinds : Put(t, al_signin(task[t], c))
    /\ UNCHANGED batch

\* one iteration of "for selector in alt_selectors" (entered if not signin_clicked)
al_alt(s, c) ==
    IF c = "clicks"
    THEN [s EXCEPT !.pc = "al_errpage", !.gb = SigninClicked([@ EXCEPT !.idx = 0])]
    ELSE IF s.gb.idx < NumAltSelectors
    THEN [s EXCEPT !.gb.idx = @ + 1]
    ELSE [s EXCEPT !.pc = "al_errpage", !.gb.idx = 0]

AlAlt(t) ==
    /\ task[t].pc = "al_alt"
    /\ \E c \in ClickKinds : Put(t, al_alt(task[t], c))
    /\ UNCHANGED batch

\* page contents, by the phrases the code looks for: a sign-in page ("sign
\* in" or "email"), "Looking for Something?", "We're sorry", anything else
PageContents == {"signin", "looking", "sorry", "other"}

\* "Looking for Something?" in page_content or "We're sorry" in page_content
IsErrorPage(content) == content \in {"looking", "sorry"}

\* "sign in" in page_content.lower() or "email" in page_content.lower()
IsSigninPage(content) == content = "signin"

\* if not signin_clicked: return False
SigninMissing(signin_clicked) == ~signin_clicked

\* lines 306-318, content3 being the page read at 315
al_signin_page(s, content3) ==
    IF SigninMissing(s.gb.signin_clicked) THEN LoginFails(s)
    ELSE IF ~IsSigninPage(content3) THEN LoginFails(s)
    ELSE [s EXCEPT !.pc = "al_email", !.gb.idx = 1]

\* lines 276-318: the error-page workaround (a product page is opened and
\* the sign-in candidates are tried again on it), then the checks that a
\* sign-in affordance was clicked and that the page is a sign-in page
al_errpage(s, content_ok, content1, goto_ok, clicked_again, content2, content3) ==
    IF ~content_ok THEN LoginFails(s)
    ELSE IF ~IsErrorPage(content1) THEN al_signin_page(s, content3)
    ELSE IF ~goto_ok THEN LoginFails(s)
    ELSE LET r == [s EXCEPT !.gb = IF clicked_again THEN SigninClicked([@ EXCEPT !.h_gotos = @ + 1])
                                   ELSE [@ EXCEPT !.h_gotos = @ + 1]]
         IN  IF content2 = "looking" THEN LoginFails(r)
             ELSE al_signin_page(r, content3)

AlErrPage(t) ==
    /\ task[t].pc = "al_errpage"
    /\ \E content_ok \in BOOLEAN, content1 \in PageContents, goto_ok \in BOOLEAN,
          clicked_again \in BOOLEAN, content2 \in PageContents, content3 \in PageContents :
         Put(t, al_errpage(task[t], content_ok, content1, goto_ok, clicked_again,
                           content2, content3))
    /\ UNCHANGED batch

\* the password is filled although the email was not
EmailMissingIgnored(s) == [s EXCEPT !.pc = "al_password", !.gb.idx = 1]

\* if not email_filled: return False
EmailMissing(s) == LoginFails(s)

\* one iteration of "for email_selector in email_selectors"
al_email(s, c) ==
    IF c = "fills"
    THEN [s EXCEPT !.pc = "al_continue",
                   !.gb = Did([@ EXCEPT !.idx = 1, !.h_email_fills = @ + 1], "email")]
    ELSE IF s.gb.idx < NumEmailSelectors
    THEN [s EXCEPT !.gb.idx = @ + 1]
    ELSE EmailMissing(s)

AlEmail(t) ==
    /\ task[t].pc = "al_email"
    /\ \E c \in FillKinds : Put(t, al_email(task[t], c))
    /\ UNCHANGED batch

\* one iteration of "for continue_selector in continue_selectors"
al_continue(s, c) ==
    IF c = "clicks"
    THEN [s EXCEPT !.pc = "al_password", !.gb = Did([@ EXCEPT !.idx = 1], "continue")]
    ELSE IF s.gb.idx < NumContinueSelectors
    THEN [s EXCEPT !.gb.idx = @ + 1]
    ELSE [s EXCEPT !.pc = "al_password", !.gb.idx = 1]

AlContinue(t) ==
    /\ task[t].pc = "al_continue"
    /\ \E c \in ClickKinds : Put(t, al_continue(task[t], c))
    /\ UNCHANGED batch

\* one iteration of "for password_selector in password_selectors"
al_password(s, c) ==
    IF c = "fills"
    THEN [s EXCEPT !.pc = "al_submit",
                   !.gb = Did([@ EXCEPT !.idx = 1, !.h_password_fills = @ + 1], "password")]
    ELSE IF s.gb.idx < NumPasswordSelectors
    THEN [s EXCEPT !.gb.idx = @ + 1]
    ELSE LoginFails(s)

AlPassword(t) ==
    /\ task[t].pc = "al_password"
    /\ \E c \in FillKinds : Put(t, al_password(task[t], c))
    /\ UNCHANGED batch

\* one iteration of "for signin_selector in signin_btn_selectors"
al_submit(s, c) ==
    IF c = "clicks"
    THEN [s EXCEPT !.pc = "al_poll",
                   !.gb = Did([@ EXCEPT !.idx = 0, !.i = 0, !.h_submits = @ + 1], "submit")]
    ELSE IF s.gb.idx < NumSigninBtnSelectors
    THEN [s EXCEPT !.gb.idx = @ + 1]
    ELSE LoginFails(s)

AlSubmit(t) ==
    /\ task[t].pc = "al_submit"
    /\ \E c \in ClickKinds : Put(t, al_submit(task[t], c))
    /\ UNCHANGED batch

\* what the error cascade of a poll resolves to: no element with text, or the
\* text of the first one, kept as the kinds of keyword found in it
NoError == [shown |-> FALSE, words |-> {}]

ErrorText(words) == [shown |-> TRUE, words |-> words]

ErrorTexts ==
    {NoError, ErrorText({}), ErrorText({"captcha"}), ErrorText({"two_factor"}),
     ErrorText({"invalid"}), ErrorText({"captcha", "invalid"})}

\* lines 484-492: the keyword lists are tried in this order
BlockReason(e) ==
    IF ~e.shown THEN "none"
    ELSE IF "captcha" \in e.words THEN "captcha"
    ELSE IF "two_factor" \in e.words THEN "two_factor"
    ELSE IF "invalid" \in e.words THEN "invalid_credentials"
    ELSE "none"

\* the page as one iteration of the polling loop sees it
Snapshots ==
    [raises : {FALSE}, account : AccountTexts, error : ErrorTexts,
     twofa : BOOLEAN, on_signin : BOOLEAN]
      \cup {[raises |-> TRUE, account |-> NoIndicator, error |-> NoError,
             twofa |-> FALSE, on_signin |-> TRUE]}

\* return False, as at lines 486, 489, 492 and 513
BlockedReturn == FALSE

\* one iteration of "for i in range(30)" (437-535)
al_poll(s, snap) ==
    LET g == Did([s.gb EXCEPT !.i = @ + 1], "poll")
        again == IF g.i < PollIterations THEN [s EXCEPT !.gb = g]
                 ELSE [s EXCEPT !.pc = "al_final", !.gb = [g EXCEPT !.h_exhausted = TRUE]]
        detected(evidence) ==
            [s EXCEPT !.pc = "al_final",
                      !.gb = [g EXCEPT !.login_detected = TRUE, !.h_evidence = evidence]]
        blocked(reason) ==
            LoginReturn([s EXCEPT !.gb = [g EXCEPT !.h_evidence = reason]],
                        BlockedReturn, "blocked")
    IN  IF snap.raises THEN again
        ELSE IF SignedIn(snap.account) THEN detected("success_indicator")
        ELSE IF BlockReason(snap.error) # "none" THEN blocked(BlockReason(snap.error))
        ELSE IF snap.twofa THEN blocked("two_factor")
        ELSE IF ~snap.on_signin /\ UrlChangeSignedIn(snap.account) THEN detected("url_change")
        ELSE again

AlPoll(t) ==
    /\ task[t].pc = "al_poll"
    /\ \E snap \in Snapshots : Put(t, al_poll(task[t], snap))
    /\ UNCHANGED batch

\* the login counts as successful at lines 538 or 552
LoginConfirmed(g, account) == g.login_detected \/ FinalSignedIn(account)

\* the session is saved whatever the outcome
SavesSessionAlways(g, auth_config, account, cookies_ok) == cookies_ok

\* save_session_cookies(cookies) is reached: the login is confirmed,
\* auth_config['persistent_session'] is set and page.context.cookies() returned
SavesSession(g, auth_config, account, cookies_ok) ==
    LoginConfirmed(g, account) /\ auth_config.persistent_session /\ cookies_ok

\* lines 537-563
al_final(s, auth_config, account, cookies_ok) ==
    LET seen == IF s.gb.login_detected THEN s
                ELSE [s EXCEPT !.gb.h_evidence = IF FinalSignedIn(account)
                                                 THEN "final_check" ELSE "none"]
        saved == IF SavesSession(s.gb, auth_config, account, cookies_ok)
                 THEN [seen EXCEPT !.gb.h_writes = @ + 1] ELSE seen
    IN  IF ~LoginConfirmed(s.gb, account) THEN LoginReturn(saved, FALSE, "failed")
        ELSE IF auth_config.persistent_session /\ ~cookies_ok
        THEN LoginReturn(saved, FALSE, "failed")
        ELSE LoginReturn(saved, TRUE, "authenticated")

AlFinal(t) ==
    /\ task[t].pc = "al_final"
    /\ \E account \in AccountTexts, cookies_ok \in BOOLEAN, written \in SaveOutcomes :
         /\ Put(t, al_final(task[t], load_auth_config, account, cookies_ok))
         /\ batch' = IF SavesSession(task[t].gb, load_auth_config, account, cookies_ok)
                     THEN [batch EXCEPT !.session_file = save_session_cookies(@, written)]
                     ELSE batch

\* one extraction whose get_browser call is followed in detail: any
\* configuration, any session file, one product URL, max_pages = 1
-----------------------------------------------------------------------------
(* auth_status (2003-2072) *)

\* lines 2010-2021: the configuration is read; when disabled the answer is
\* given at once, else a session is acquired with auto_login=False
as_load(s, auth_config) ==
    IF ~auth_config.enabled
    THEN [s EXCEPT !.pc = "done",
                   !.outcome = Returned([enabled |-> FALSE, is_logged_in |-> FALSE,
                                         success |-> TRUE])]
    ELSE [s EXCEPT !.pc = "gb_launch"]

AsLoad(t) ==
    /\ task[t].op = "auth_status" /\ task[t].pc = "as_load"
    /\ Put(t, as_load(task[t], load_auth_config))
    /\ UNCHANGED batch

\* lines 2023-2047: the home page is loaded and the account region read
as_check(s, goto_ok, account) ==
    IF ~goto_ok
    THEN [s EXCEPT !.pc = "as_finally",
                   !.pending = Returned(StatusErrorResponse("navigation_error"))]
    ELSE [s EXCEPT !.pc = "as_finally",
                   !.pending = Returned([enabled |-> TRUE,
                                         is_logged_in |-> SignedIn(account),
                                         success |-> TRUE])]

AsCheck(t) ==
    /\ task[t].op = "auth_status" /\ task[t].pc = "as_check"
    /\ \E goto_ok \in BOOLEAN, account \in AccountTexts :
         Put(t, as_check(task[t], goto_ok, account))
    /\ UNCHANGED batch

\* lines 2058-2065: browser.close() and playwright.stop() under a try whose
\* exception is dropped; a failing close leaves the driver running
as_finally(s, close_ok) ==
    LET closed == IF s.browser /\ close_ok THEN [s EXCEPT !.proc = "closed", !.drv = "stopped"]
                  ELSE s
    IN  [closed EXCEPT !.pc = "done", !.outcome = s.pending]

AsFinally(t) ==
    /\ task[t].op = "auth_status" /\ task[t].pc = "as_finally"
    /\ \E close_ok \in BOOLEAN : Put(t, as_finally(task[t], close_ok))
    /\ UNCHANGED batch

AuthInit ==
    /\ \E auth_config \in AuthConfigs, file \in SessionFiles :
         batch = [Idle EXCEPT !.auth_config = auth_config, !.session_file = file]
    /\ \/ \E o \in {"reviews", "details"} :
            task = [t \in {1} |-> [NewTask(o, "dp", 50, 1) EXCEPT !.pc = "gb_launch"]]
       \/ task = [t \in {1} |-> [NewTask("auth_status", "dp", 50, 1) EXCEPT !.pc = "as_load"]]

AuthNext ==
    \/ \E t \in Tasks : AsLoad(t)
    \/ \E t \in Tasks : AsCheck(t)
    \/ \E t \in Tasks : AsFinally(t)
    \/ \E t \in Tasks : GbLaunch(t)
    \/ \E t \in Tasks : GbCookies(t)
    \/ \E t \in Tasks : GbValidate(t)
    \/ \E t \in Tasks : GbGoto(t)
    \/ \E t \in Tasks : AlEntry(t)
    \/ \E t \in Tasks : AlHome(t)
    \/ \E t \in Tasks : AlSignin(t)
    \/ \E t \in Tasks : AlAlt(t)
    \/ \E t \in Tasks : AlErrPage(t)
    \/ \E t \in Tasks : AlEmail(t)
    \/ \E t \in Tasks : AlContinue(t)
    \/ \E t \in Tasks : AlPassword(t)
    \/ \E t \in Tasks : AlSubmit(t)
    \/ \E t \in Tasks : AlPoll(t)
    \/ \E t \in Tasks : AlFinal(t)
    \/ \E t \in Tasks : NavigateProductPage(t)
    \/ \E t \in Tasks : ProductPage(t)
    \/ \E t \in Tasks : DirectNavigation(t)
    \/ \E t \in Tasks : ScrapePage(t)
    \/ \E t \in Tasks : DetailsBody(t)
    \/ \E t \in Tasks : CloseBrowser(t)
    \/ \E t \in Tasks : StopDriver(t)

SpecAuth == AuthInit /\ [][AuthNext]_vars

-----------------------------------------------------------------------------
(* The field cascades of extract_product_details (975-1055) and of          *)
(* extract_reviews_from_soup (696-764), and extract_reviews_from_soup as a *)
(* function of the document.  A text is a sequence of tokens: a word, a    *)
(* number (kept in tenths: <<"num", 45>> is 4.5), or an amount with a "$"  *)
(* sign.                                                                    *)

\* a document gives elements to the first MaxCandidates candidates of a cascade
MaxCandidates == 3
\* a document of review containers holds at most MaxContainers of them
MaxContainers == 3

\* the products the rating filter is run on
MaxBasicProducts == 3

\* the product containers a search page may hold
MaxFound == 6

\* safe_navigate is run with max_retries from 0 to MaxRetriesBound
MaxRetriesBound == 3

\* human_scroll is run with max_scrolls from 1 to MaxScrollsBound
MaxScrollsBound == 3

\* number of entries of title_selectors
NumTitleSelectors == 4
\* number of entries of price_selectors
NumPriceSelectors == 12
\* number of entries of rating_selectors (product page)
NumRatingSelectors == 7
\* number of entries of review_selectors (review count of the product page)
NumReviewCountSelectors == 6
\* number of entries of rating_selectors (review container)
NumReviewRatingSelectors == 3
\* number of entries of name_selectors
NumNameSelectors == 3
\* number of entries of date_selectors
NumDateSelectors == 3
\* number of entries of helpful_selectors
NumHelpfulSelectors == 3

Fields ==
    {"title", "price", "rating", "review_count", "review_text", "review_rating",
     "reviewer_name", "review_date", "helpful_votes"}

NumSelectors(field) ==
    CASE field = "title" -> NumTitleSelectors
      [] field = "price" -> NumPriceSelectors
      [] field = "rating" -> NumRatingSelectors
      [] field = "review_count" -> NumReviewCountSelectors
      [] field = "review_text" -> NumTextSelectors
      [] field = "review_rating" -> NumReviewRatingSelectors
      [] field = "reviewer_name" -> NumNameSelectors
      [] field = "review_date" -> NumDateSelectors
      [] field = "helpful_votes" -> NumHelpfulSelectors

\* re.search(r"(\d+\.?\d*)", text) / re.search(r"([\d,]+)", text) finds a match
HasNumber(text) == \E j \in 1..Len(text) : text[j][1] \in {"num", "$"}

\* match.group(1): the first number of the text
FirstNumber(text) ==
    LET j == CHOOSE j \in 1..Len(text) :
                 /\ text[j][1] \in {"num", "$"}
                 /\ \A h \in 1..(j - 1) : text[h][1] \notin {"num", "$"}
    IN  <<<<"num", text[j][2]>>>>

\* price_text and ("$" in price_text or "CDN$" in price_text)
HasDollar(text) == text # <<>> /\ \E j \in 1..Len(text) : text[j][1] = "$"

\* the fields whose loop tests the text before it breaks
Validated(field) == field \in {"price", "rating", "review_count", "review_rating"}

\* any text is accepted as a price
ValidAnyText(field, text) ==
    IF field = "price" THEN text # <<>>
    ELSE IF field \in {"rating", "review_count", "review_rating"} THEN HasNumber(text)
    ELSE TRUE

\* the test a validated field applies to the text of a matched element
Valid(field, text) ==
    IF field = "price" THEN HasDollar(text)
    ELSE IF Validated(field) THEN HasNumber(text)
    ELSE TRUE

\* the value a field takes from the text of the element it stops at
Value(field, text) ==
    IF field \in {"rating", "review_count", "review_rating"} THEN FirstNumber(text)
    ELSE text

\* "if el: ...; break" for the fields without validation,
\* "if el: ... if <valid>: ...; break" for the others
Breaks(field, el) == el.present /\ Valid(field, el.text)

RECURSIVE select_field(_, _, _)
\* for selector in <field>_selectors: el = soup.select_one(selector); ...
select_field(field, els, k) ==
    IF k > NumSelectors(field) THEN <<>>
    ELSE IF Breaks(field, els[k]) THEN Value(field, els[k].text)
    ELSE select_field(field, els, k + 1)

\* the texts the element of candidate k may carry: none, a word, a word and
\* a number up to 5 ("rated 4.1 out of 5"), a text whose first number is
\* above 5 ("12.1 ..."), an amount ("$12.99")
CandidateTexts(k) ==
    {<<>>, <<<<"word", k>>>>, <<<<"word", k>>, <<"num", 40 + k>>>>,
     <<<<"num", 120 + k>>, <<"word", k>>>>, <<<<"$", k>>>>}

CandidateEls(k) == {NoEl} \cup {El(txt) : txt \in CandidateTexts(k)}

\* the elements a document gives to the candidates of a field
FieldDocs(field) ==
    LET m == IF MaxCandidates < NumSelectors(field) THEN MaxCandidates
             ELSE NumSelectors(field)
        given == {p \in [1..m -> UNION {CandidateEls(k) : k \in 1..m}] :
                     \A k \in 1..m : p[k] \in CandidateEls(k)}
    IN  {[k \in 1..NumSelectors(field) |-> IF k <= m THEN p[k] ELSE NoEl] : p \in given}

\* <li data-hook="review"> whose [data-hook="review-body"] is empty and whose
\* .review-text-content holds the text
LiReviewEmptyBody(txt) ==
    [matches |-> {1, 3}, text_els |-> <<El(<<>>), El(txt), NoEl, NoEl>>]

\* a block that no entry of review_selectors matches
OtherBlock(txt) == [matches |-> {}, text_els |-> <<El(txt), NoEl, NoEl, NoEl>>]

\* the containers a document may have at position i
ContainersAt(i) ==
    {LiReview(<<>>), LiReview(<<0, i>>), DivReview(<<>>), DivReview(<<0, i>>),
     LiReviewEmptyBody(<<0, i>>), OtherBlock(<<0, i>>)}

\* the static documents extract_reviews_from_soup is run on
Soups ==
    UNION {{soup \in [1..n -> UNION {ContainersAt(i) : i \in 1..n}] :
               \A i \in 1..n : soup[i] \in ContainersAt(i)} : n \in 0..MaxContainers}

\* the fields of a product record
DetailFieldNames == {"title", "price", "rating", "review_count"}

\* a text the field accepts, as candidate k carries it
GoodText(field, k) ==
    IF field = "price" THEN <<<<"$", k>>>>
    ELSE IF field = "title" THEN <<<<"word", k>>>>
    ELSE <<<<"word", k>>, <<"num", 40 + k>>>>

\* only candidate k finds an element, with the text txt (k = 0: none does)
OnlyAt(field, k, txt) ==
    [j \in 1..NumSelectors(field) |-> IF j = k THEN El(txt) ELSE NoEl]

\* what a product page gives to the candidates of a field: nothing, an
\* accepted text at the first or only at the second candidate, an empty
\* element at the first
DetailEls(field) ==
    {OnlyAt(field, 0, <<>>), OnlyAt(field, 1, GoodText(field, 1)),
     OnlyAt(field, 2, GoodText(field, 2)), OnlyAt(field, 1, <<>>)}

DetailDocs ==
    [title : DetailEls("title"), price : DetailEls("price"),
     rating : DetailEls("rating"), review_count : DetailEls("review_count")]

\* a field that no candidate resolves makes the record an error record
details_from_soup_strict(s, doc) ==
    IF \E f \in DetailFieldNames : select_field(f, doc[f], 1) = <<>>
    THEN DetailsErrorResult(s, "missing field")
    ELSE DetailsResult(s, [f \in DetailFieldNames |-> select_field(f, doc[f], 1)])

\* lines 973-1067: the four cascades on the soup, then the result
details_from_soup(s, doc) ==
    DetailsResult(s, [title |-> select_field("title", doc.title, 1),
                      price |-> select_field("price", doc.price, 1),
                      rating |-> select_field("rating", doc.rating, 1),
                      review_count |-> select_field("review_count", doc.review_count, 1)])

\* a run of one cascade, of the four cascades of a product page, or of
\* extract_reviews_from_soup, on a document
NewExtraction(o, f, d) ==
    [op |-> o, pc |-> "extract", url |-> "dp", field |-> f, doc |-> d,
     value |-> <<>>, details |-> NoOutcome,
     reviews |-> <<>>, reviews_again |-> <<>>]

ExtractDetails(t) ==
    /\ task[t].op = "details_soup" /\ task[t].pc = "extract"
    /\ Put(t, [task[t] EXCEPT !.pc = "done",
                              !.details = Returned(details_from_soup(task[t], task[t].doc))])
    /\ UNCHANGED batch

-----------------------------------------------------------------------------
(* search_reviews up to the fan-out: the request arguments, the product    *)
(* containers of the search page, the rating filter on the detail results  *)
(* and the review tasks.  Ratings and minimum ratings are in tenths.       *)

\* a query argument: an integer literal, or a text int() rejects
IntArg(n) == [int |-> TRUE, value |-> n]

NotIntArg == [int |-> FALSE, value |-> 0]

MaxProductsArgs == {IntArg(n) : n \in -1..(MaxFound + 1)} \cup {NotIntArg}

\* the ceiling of lines 1677-1678 is not applied
ClampNoCeiling(arg) ==
    IF ~arg.int THEN 3
    ELSE IF arg.value < 1 THEN 1 ELSE arg.value

\* lines 1675-1682
ClampMaxProducts(arg) ==
    IF ~arg.int THEN 3
    ELSE IF arg.value > 5 THEN 5
    ELSE IF arg.value < 1 THEN 1 ELSE arg.value

\* the min_rating argument: not given, a number, or a text float() rejects
NoMinArg == [kind |-> "empty", value |-> 0]

MinArg(m) == [kind |-> "number", value |-> m]

BadMinArg == [kind |-> "text", value |-> 0]

MinRatingArgs == {NoMinArg, BadMinArg} \cup {MinArg(m) : m \in {-10, 0, 40, 50, 60}}

\* lines 1685-1692: min_rating_float, or the 400 response
NoMinRating == [ok |-> TRUE, set |-> FALSE, value |-> 0]

ParseMinRating(arg) ==
    IF arg.kind = "empty" THEN NoMinRating
    ELSE IF arg.kind = "text" THEN [ok |-> FALSE, set |-> FALSE, value |-> 0]
    ELSE IF arg.value < 0 \/ arg.value > 50 THEN [ok |-> FALSE, set |-> FALSE, value |-> 0]
    ELSE [ok |-> TRUE, set |-> TRUE, value |-> arg.value]

BadRequest(e) == [error |-> e, success |-> FALSE, status |-> 400]

\* the detail result of product i with the rating r
Rated(i, r) ==
    DetailsResult([url |-> i], [title |-> <<>>, price |-> <<>>, rating |-> r,
                                review_count |-> <<>>])

\* what gather returns for the detail task of product i: an exception, an
\* error record, or a record whose rating is absent, 4.5, 4.0, 3.0 or a
\* text that is not a number
DetailKinds == {"raised", "error", "absent", "r45", "r40", "r30", "text"}

DetailResultOf(i, kind) ==
    CASE kind = "raised" -> Raised("boom")
      [] kind = "error" -> Returned(DetailsErrorResult([url |-> i], "boom"))
      [] kind = "absent" -> Returned(Rated(i, <<>>))
      [] kind = "r45" -> Returned(Rated(i, <<<<"num", 45>>>>))
      [] kind = "r40" -> Returned(Rated(i, <<<<"num", 40>>>>))
      [] kind = "r30" -> Returned(Rated(i, <<<<"num", 30>>>>))
      [] OTHER -> Returned(Rated(i, <<<<"word", i>>>>))

\* float(product_rating) succeeds
IsFloat(text) == Len(text) = 1 /\ text[1][1] = "num"

\* a product without a usable rating passes whatever the minimum
PassesLenient(result, m) ==
    IF result.kind = "raised" THEN TRUE
    ELSE LET product_rating == result.value.rating
         IN  IF product_rating # <<>>
             THEN IF IsFloat(product_rating) THEN product_rating[1][2] >= m ELSE TRUE
             ELSE TRUE

\* lines 1783-1808: the product of one detail result is kept
Passes(result, m) ==
    IF result.kind = "raised" THEN m <= 0
    ELSE LET product_rating == result.value.rating
         IN  IF product_rating # <<>>
             THEN IF IsFloat(product_rating) THEN product_rating[1][2] >= m ELSE m <= 0
             ELSE m <= 0

RECURSIVE FilterFrom(_, _, _, _)
FilterFrom(basic_products, detail_results, m, i) ==
    IF i > Len(detail_results) THEN <<>>
    ELSE (IF Passes(detail_results[i], m) THEN <<basic_products[i]>> ELSE <<>>)
         \o FilterFrom(basic_products, detail_results, m, i + 1)

\* lines 1779-1811: filtered_products
filter_products(basic_products, detail_results, min_rating_float) ==
    IF min_rating_float.set
    THEN FilterFrom(basic_products, detail_results, min_rating_float.value, 1)
    ELSE basic_products

\* the inputs of the filter: MaxBasicProducts products and their detail results
FilterDocs ==
    {[basic_products |-> [i \in 1..MaxBasicProducts |-> i], detail_results |-> d,
      min_rating |-> a] :
        d \in {[i \in 1..MaxBasicProducts |-> DetailResultOf(i, k[i])] :
                   k \in [1..MaxBasicProducts -> DetailKinds]},
        a \in MinRatingArgs}

ExtractFilter(t) ==
    /\ task[t].op = "filter" /\ task[t].pc = "extract"
    /\ LET min_rating_float == ParseMinRating(task[t].doc.min_rating)
       IN  IF ~min_rating_float.ok
           THEN Put(t, [task[t] EXCEPT !.pc = "done",
                                       !.details = Returned(BadRequest("Invalid rating filter"))])
           ELSE Put(t, [task[t] EXCEPT !.pc = "done",
                                       !.value = filter_products(task[t].doc.basic_products,
                                                                 task[t].doc.detail_results,
                                                                 min_rating_float)])
    /\ UNCHANGED batch

\* a product container of the search page: with or without a title and a
\* link, and the rating its product page shows
Container(c, r) == [complete |-> c, rating |-> r]

ContainerKinds ==
    {Container(FALSE, <<>>), Container(TRUE, <<<<"num", 45>>>>),
     Container(TRUE, <<<<"num", 30>>>>)}

ContainerLists == UNION {[1..n -> ContainerKinds] : n \in 0..MaxFound}

FanOutDocs ==
    [max_products : MaxProductsArgs, min_rating : {NoMinArg, MinArg(40)},
     product_containers : ContainerLists]

\* lines 1727-1758: the positions, among the first max_products containers,
\* of those with a title and a link
RECURSIVE BasicProducts(_, _, _)
BasicProducts(product_containers, max_products, i) ==
    IF i > Len(product_containers) \/ i > max_products THEN <<>>
    ELSE (IF product_containers[i].complete THEN <<i>> ELSE <<>>)
         \o BasicProducts(product_containers, max_products, i + 1)

\* lines 1672-1682, 1727-1828: the two fan-outs
FanOut(doc) ==
    LET max_products == ClampMaxProducts(doc.max_products)
        basic_products == BasicProducts(doc.product_containers, max_products, 1)
        detail_tasks == basic_products
        detail_results == [k \in 1..Len(detail_tasks) |->
                              Returned(Rated(detail_tasks[k],
                                             doc.product_containers[detail_tasks[k]].rating))]
        filtered_products == filter_products(basic_products, detail_results,
                                             ParseMinRating(doc.min_rating))
    IN  [max_products |-> max_products, basic_products |-> basic_products,
         detail_tasks |-> detail_tasks, filtered_products |-> filtered_products,
         tasks |-> filtered_products]

ExtractFanOut(t) ==
    /\ task[t].op = "fan_out" /\ task[t].pc = "extract"
    /\ Put(t, [task[t] EXCEPT !.pc = "done", !.details = Returned(FanOut(task[t].doc))])
    /\ UNCHANGED batch

-----------------------------------------------------------------------------
(* safe_navigate (574-591) and human_scroll (594-634), step by step.       *)
(* h_trail is the sequence of what a call of safe_navigate did: the result *)
(* of each attempt and each delay.                                          *)

\* page.goto and page.wait_for_load_state of one attempt
AttemptResults == {"ok", "goto_fails", "load_state_fails"}

NewNavigation(mr) ==
    [op |-> "safe_navigate", pc |-> "goto", max_retries |-> mr, attempt |-> 0,
     outcome |-> NoOutcome, h_trail |-> <<>>]

\* one attempt more is made
RetriesOnceMore(attempt, mr) == attempt <= mr

\* line 585: if attempt < max_retries
Retries(attempt, mr) == attempt < mr

\* lines 576-590: one iteration of "for attempt in range(max_retries + 1)"
\* up to its return or to the delay before the next one
nav_attempt(s, result) ==
    LET r == [s EXCEPT !.h_trail = Append(@, result)]
    IN  IF result = "ok" THEN [r EXCEPT !.pc = "done", !.outcome = Returned(TRUE)]
        ELSE IF Retries(s.attempt, s.max_retries) THEN [r EXCEPT !.pc = "delay"]
        ELSE [r EXCEPT !.pc = "done", !.outcome = Returned(FALSE)]

NavAttempt(t) ==
    /\ task[t].op = "safe_navigate" /\ task[t].pc = "goto"
    /\ \E result \in AttemptResults : Put(t, nav_attempt(task[t], result))
    /\ UNCHANGED batch

\* line 586-587: await human_delay(2000, 4000); continue
nav_delay(s) ==
    [s EXCEPT !.pc = "goto", !.attempt = @ + 1, !.h_trail = Append(@, "delay")]

NavDelay(t) ==
    /\ task[t].op = "safe_navigate" /\ task[t].pc = "delay"
    /\ Put(t, nav_delay(task[t]))
    /\ UNCHANGED batch

\* the pages human_scroll is called on, as the soup parsed after it
ScrollDocs ==
    {<<>>, <<LiReview(<<0, 1>>)>>, <<LiReview(<<0, 1>>), DivReview(<<0, 2>>)>>}

\* n is random.randint(1, max_scrolls), i the loop variable; h_scrolls and
\* h_back count the scrollTo calls of the loop and of the scroll back
NewScroll(ms, d) ==
    [op |-> "human_scroll", pc |-> "height", max_scrolls |-> ms, doc |-> d,
     n |-> 0, i |-> 0, outcome |-> NoOutcome,
     h_scrolls |-> 0, h_back |-> 0, h_failed |-> FALSE]

\* the exception leaves human_scroll and ends the caller's step
scroll_fails_propagates(s) ==
    [s EXCEPT !.pc = "done", !.h_failed = TRUE, !.outcome = Raised("scroll")]

\* lines 633-634: except Exception: logger.warning(...); the call returns
scroll_fails(s) == [s EXCEPT !.pc = "caller", !.h_failed = TRUE]

\* lines 597-600: the page height is read and the number of scrolls drawn
scroll_start(s, ok, n) ==
    IF ~ok THEN scroll_fails(s) ELSE [s EXCEPT !.pc = "scroll", !.n = n, !.i = 0]

ScrollStart(t) ==
    /\ task[t].op = "human_scroll" /\ task[t].pc = "height"
    /\ \E ok \in BOOLEAN, n \in 1..task[t].max_scrolls :
         Put(t, scroll_start(task[t], ok, n))
    /\ UNCHANGED batch

\* lines 600-622: one iteration of the loop; the read of window.pageYOffset
\* or the scrollTo may raise
scroll_step(s, result) ==
    IF result # "ok" THEN scroll_fails(s)
    ELSE [s EXCEPT !.i = @ + 1, !.h_scrolls = @ + 1,
                   !.pc = IF s.i + 1 = s.n THEN "back" ELSE "scroll"]

ScrollStep(t) ==
    /\ task[t].op = "human_scroll" /\ task[t].pc = "scroll"
    /\ \E result \in {"ok", "offset_fails", "scroll_fails"} :
         Put(t, scroll_step(task[t], result))
    /\ UNCHANGED batch

\* lines 624-631: one time in five the page is scrolled back up
scroll_back(s, choice) ==
    IF choice = "skip" THEN [s EXCEPT !.pc = "caller"]
    ELSE IF choice = "ok" THEN [s EXCEPT !.pc = "caller", !.h_back = 1]
    ELSE scroll_fails(s)

ScrollBack(t) ==
    /\ task[t].op = "human_scroll" /\ task[t].pc = "back"
    /\ \E choice \in {"skip", "ok", "fails"} : Put(t, scroll_back(task[t], choice))
    /\ UNCHANGED batch

\* lines 871-880: the page loop goes on after human_scroll returned: the
\* content is parsed and the reviews are extracted
AfterScroll(t) ==
    /\ task[t].op = "human_scroll" /\ task[t].pc = "caller"
    /\ Put(t, [task[t] EXCEPT !.pc = "done",
                              !.outcome = Returned(extract_reviews_from_soup(task[t].doc, <<>>))])
    /\ UNCHANGED batch

ExtractField(t) ==
    /\ task[t].op = "field" /\ task[t].pc = "extract"
    /\ Put(t, [task[t] EXCEPT !.pc = "done",
                              !.value = select_field(task[t].field, task[t].doc, 1)])
    /\ UNCHANGED batch

ExtractSoup(t) ==
    /\ task[t].op = "soup" /\ task[t].pc = "extract"
    /\ Put(t, [task[t] EXCEPT !.pc = "again",
                              !.reviews = extract_reviews_from_soup(task[t].doc, <<>>)])
    /\ UNCHANGED batch

ExtractSoupAgain(t) ==
    /\ task[t].op = "soup" /\ task[t].pc = "again"
    /\ Put(t, [task[t] EXCEPT !.pc = "done",
                              !.reviews_again = extract_reviews_from_soup(task[t].doc, <<>>)])
    /\ UNCHANGED batch

ExtractInit ==
    /\ batch = Idle
    /\ \/ \E f \in Fields : \E d \in FieldDocs(f) :
            task = [t \in {1} |-> NewExtraction("field", f, d)]
       \/ \E d \in Soups : task = [t \in {1} |-> NewExtraction("soup", "none", d)]
       \/ \E d \in DetailDocs : task = [t \in {1} |-> NewExtraction("details_soup", "none", d)]
       \/ \E d \in FilterDocs : task = [t \in {1} |-> NewExtraction("filter", "none", d)]
       \/ \E d \in FanOutDocs : task = [t \in {1} |-> NewExtraction("fan_out", "none", d)]
       \/ \E mr \in 0..MaxRetriesBound : task = [t \in {1} |-> NewNavigation(mr)]
       \/ \E ms \in 1..MaxScrollsBound, d \in ScrollDocs : task = [t \in {1} |-> NewScroll(ms, d)]

ExtractNext ==
    \/ \E t \in Tasks : ExtractField(t)
    \/ \E t \in Tasks : ExtractSoup(t)
    \/ \E t \in Tasks : ExtractSoupAgain(t)
    \/ \E t \in Tasks : ExtractDetails(t)
    \/ \E t \in Tasks : ExtractFilter(t)
    \/ \E t \in Tasks : ExtractFanOut(t)
    \/ \E t \in Tasks : NavAttempt(t)
    \/ \E t \in Tasks : NavDelay(t)
    \/ \E t \in Tasks : ScrollStart(t)
    \/ \E t \in Tasks : ScrollStep(t)
    \/ \E t \in Tasks : ScrollBack(t)
    \/ \E t \in Tasks : AfterScroll(t)

SpecExtract == ExtractInit /\ [][ExtractNext]_vars

-----------------------------------------------------------------------------
(* The session file under concurrent sessions.  Requests are served by     *)
(* threads (app.run, 2112), each with its own event loop, and neither      *)
(* load_session_cookies nor save_session_cookies takes a lock.  The file   *)
(* is a sequence of blocks: block <<w, k>> is the k-th block that session  *)
(* w writes of its JSON document (open(.., 'w') truncates, then the text   *)
(* is written block by block at the handle's own offset).                  *)

\* the sessions that run concurrently
NumSessions == 3

\* the blocks a session's document spans
MaxBlocks == 2

\* the bytes a write past the end of the file leaves in between
Hole == <<0, 0>>

\* the document session w writes when it spans len blocks
Document(w, len) == [k \in 1..len |-> <<w, k>>]

ByteFile(content) == [exists |-> TRUE, content |-> content]

NewSession(len) ==
    [op |-> "session", pc |-> "load", doc_len |-> len, pos |-> 0,
     saved_cookies |-> <<>>, h_reads |-> 0, h_writes |-> 0, h_write_failed |-> FALSE]

\* json.load(f): the text parses when its blocks are the first, second, ...
\* block of documents that all span as many blocks as the text has; the
\* cookies are those of the blocks' writers, block by block
Parses(content, lens) ==
    /\ content # <<>>
    /\ \A k \in 1..Len(content) :
         /\ content[k] # Hole
         /\ content[k][2] = k
         /\ lens[content[k][1]] = Len(content)

\* lines 135-155 on the bytes of the file: [] when the file is missing or
\* json.load raises (the exception is caught at 153), else the cookies
load_session_bytes(file, lens) ==
    IF ~file.exists THEN <<>>
    ELSE IF Parses(file.content, lens) THEN [k \in 1..Len(file.content) |-> file.content[k][1]]
    ELSE <<>>

DocLens == [t \in 1..NumSessions |-> task[t].doc_len]

\* get_browser, 1166: saved_cookies = load_session_cookies()
SessionLoad(t) ==
    /\ task[t].op = "session" /\ task[t].pc = "load"
    /\ Put(t, [task[t] EXCEPT !.pc = "login", !.h_reads = @ + 1,
                              !.saved_cookies = load_session_bytes(batch.session_file, DocLens)])
    /\ UNCHANGED batch

\* the login of the session: only a login that was confirmed saves (537-557)
SessionLogin(t) ==
    /\ task[t].op = "session" /\ task[t].pc = "login"
    /\ \E confirmed \in BOOLEAN :
         Put(t, [task[t] EXCEPT !.pc = IF confirmed THEN "save_open" ELSE "done"])
    /\ UNCHANGED batch

\* line 166: open(session_file, 'w') truncates the file; a failing open
\* leaves it alone and save_session_cookies returns False
SessionOpen(t) ==
    /\ task[t].op = "session" /\ task[t].pc = "save_open"
    /\ \E ok \in BOOLEAN :
         IF ok
         THEN /\ Put(t, [task[t] EXCEPT !.pc = "save_write", !.pos = 0, !.h_writes = @ + 1])
              /\ batch' = [batch EXCEPT !.session_file = ByteFile(<<>>)]
         ELSE /\ Put(t, [task[t] EXCEPT !.pc = "done", !.h_writes = @ + 1,
                                        !.h_write_failed = TRUE])
              /\ UNCHANGED batch

\* the file after a block is written at offset pos
WriteAt(content, pos, block) ==
    [k \in 1..(IF pos + 1 > Len(content) THEN pos + 1 ELSE Len(content)) |->
        IF k = pos + 1 THEN block
        ELSE IF k <= Len(content) THEN content[k] ELSE Hole]

\* line 167: json.dump writes the next block; the file is closed after the
\* last one; a failing write ends the call with the file as it is
SessionWrite(t) ==
    /\ task[t].op = "session" /\ task[t].pc = "save_write"
    /\ \E ok \in BOOLEAN :
         IF ok
         THEN /\ batch' = [batch EXCEPT !.session_file =
                              ByteFile(WriteAt(batch.session_file.content, task[t].pos,
                                               <<t, task[t].pos + 1>>))]
              /\ Put(t, [task[t] EXCEPT !.pos = @ + 1,
                                        !.pc = IF task[t].pos + 1 = task[t].doc_len
                                               THEN "done" ELSE "save_write"])
         ELSE /\ Put(t, [task[t] EXCEPT !.pc = "done", !.h_write_failed = TRUE])
              /\ UNCHANGED batch

SessionInit ==
    /\ batch = [handler |-> "sessions", session_file |-> NoSessionFile]
    /\ \E lens \in [1..NumSessions -> 1..MaxBlocks] :
         task = [t \in 1..NumSessions |-> NewSession(lens[t])]

SessionNext ==
    \/ \E t \in Tasks : SessionLoad(t)
    \/ \E t \in Tasks : SessionLogin(t)
    \/ \E t \in Tasks : SessionOpen(t)
    \/ \E t \in Tasks : SessionWrite(t)

SpecSession == SessionInit /\ [][SessionNext]_vars

-----------------------------------------------------------------------------
(* The configuration routes: get_auth_config, update_auth_config and       *)
(* clear_auth, run by concurrent request threads on auth_config.json, the  *)
(* session file and the module-level dictionary AUTO_AUTH_CONFIG.  A       *)
(* configuration held by a handler is a record with the flag shared: its   *)
(* credentials are the very dictionary AUTO_AUTH_CONFIG['credentials']     *)
(* (dict.copy() is shallow).  batch.default_credentials is the content of  *)
(* that dictionary.                                                        *)

\* the requests that run concurrently
NumRequests == 2

Credentials(e, pw) == [email |-> e, password |-> pw]

EmptyCredentials == Credentials("", "")

Config(en, creds, ps) == [enabled |-> en, credentials |-> creds, persistent_session |-> ps]

\* AUTO_AUTH_CONFIG as the source text has it (33-41)
OriginalDefaults == Config(TRUE, EmptyCredentials, TRUE)

\* AUTO_AUTH_CONFIG.copy(): the top-level values and the shared credentials
DefaultsCopy(default_credentials) ==
    [config |-> Config(TRUE, default_credentials, TRUE), shared |-> TRUE]

NoConfigFile == [exists |-> FALSE, doc |-> <<>>]

\* auth_config.json: a complete document, or (doc = <<>>) a file that was
\* truncated by open(.., 'w') and not yet, or never, filled
ConfigFile(doc) == [exists |-> TRUE, doc |-> doc]

\* lines 108-121: the file's document merged over a copy of the defaults;
\* the copy itself when the file is missing or json.load raises
load_auth_config_file(file, default_credentials) ==
    IF file.exists /\ file.doc # <<>>
    THEN [config |-> file.doc[1], shared |-> FALSE]
    ELSE DefaultsCopy(default_credentials)

\* the body of a POST /auth-config: each key is given (<<v>>) or not (<<>>)
Data(en, e, pw) == [enabled |-> en, email |-> e, password |-> pw]

UpdateData ==
    {Data(<<>>, <<"new@">>, <<"pw2">>), Data(<<FALSE>>, <<>>, <<>>),
     Data(<<>>, <<>>, <<"pw1">>)}

\* lines 1927-1937: the assignments to current_config
ApplyData(config, data) ==
    [config EXCEPT
        !.enabled = IF data.enabled # <<>> THEN data.enabled[1] ELSE @,
        !.credentials.email = IF data.email # <<>> THEN data.email[1] ELSE @,
        !.credentials.password = IF data.password # <<>> THEN data.password[1] ELSE @]

\* the password is sent back with the rest
get_response_with_password(config) ==
    [config |-> [enabled |-> config.enabled, email |-> config.credentials.email,
                 persistent_session |-> config.persistent_session,
                 has_password |-> config.credentials.password # "",
                 password |-> config.credentials.password],
     success |-> TRUE]

\* lines 1902-1910: safe_config and the response
get_response(config) ==
    [config |-> [enabled |-> config.enabled, email |-> config.credentials.email,
                 persistent_session |-> config.persistent_session,
                 has_password |-> config.credentials.password # ""],
     success |-> TRUE]

NewRequest(o, d) ==
    [op |-> o, pc |-> "load", data |-> d, local |-> DefaultsCopy(EmptyCredentials),
     saved |-> FALSE, outcome |-> NoOutcome,
     h_observed |-> <<>>, h_legit |-> {}, h_after_all |-> FALSE]

\* get_auth_config (1898-1913)
GetAuthConfig(t) ==
    /\ task[t].op = "get" /\ task[t].pc = "load"
    /\ LET loaded == load_auth_config_file(batch.config_file, batch.default_credentials)
       IN  Put(t, [task[t] EXCEPT !.pc = "done", !.local = loaded,
                                  !.h_observed = <<loaded.config>>,
                                  !.h_legit = batch.h_docs,
                                  !.outcome = Returned(get_response(loaded.config))])
    /\ UNCHANGED batch

\* update_auth_config, line 1924: current_config = load_auth_config()
UpdateLoad(t) ==
    /\ task[t].op = "update" /\ task[t].pc = "load"
    /\ Put(t, [task[t] EXCEPT !.pc = "mutate",
                              !.local = load_auth_config_file(batch.config_file,
                                                              batch.default_credentials)])
    /\ UNCHANGED batch

\* lines 1927-1937: an assignment to current_config['credentials'][..] is
\* an assignment to the shared dictionary when the configuration is a copy
\* of the defaults
UpdateMutate(t) ==
    /\ task[t].op = "update" /\ task[t].pc = "mutate"
    /\ LET config == ApplyData(task[t].local.config, task[t].data)
       IN  /\ Put(t, [task[t] EXCEPT !.pc = "save_open", !.local.config = config])
           /\ batch' = IF task[t].local.shared
                       THEN [batch EXCEPT !.default_credentials = config.credentials]
                       ELSE batch

\* save_auth_config returned: update_auth_config answers (1940-1947),
\* clear_auth goes on whatever it returned (2081)
AfterSave(s, saved) ==
    IF s.op = "update"
    THEN [s EXCEPT !.pc = "done", !.saved = saved,
                   !.outcome = Returned([success |-> saved])]
    ELSE [s EXCEPT !.pc = "remove", !.saved = saved]

\* save_auth_config, line 127: open(config_file, 'w') truncates the file
SaveOpen(t) ==
    /\ task[t].op \in {"update", "clear"} /\ task[t].pc = "save_open"
    /\ \E ok \in BOOLEAN :
         IF ok
         THEN /\ Put(t, [task[t] EXCEPT !.pc = "save_dump"])
              /\ batch' = [batch EXCEPT !.config_file = ConfigFile(<<>>)]
         ELSE /\ Put(t, AfterSave(task[t], FALSE))
              /\ UNCHANGED batch

\* save_auth_config, line 128: json.dump writes the document as the
\* handler's dictionary is now (shared credentials are read at this point)
SaveDump(t) ==
    /\ task[t].op \in {"update", "clear"} /\ task[t].pc = "save_dump"
    /\ \E ok \in BOOLEAN :
         IF ok
         THEN LET doc == IF task[t].local.shared
                         THEN [task[t].local.config EXCEPT
                                  !.credentials = batch.default_credentials]
                         ELSE task[t].local.config
              IN  /\ Put(t, AfterSave(task[t], TRUE))
                  /\ batch' = [batch EXCEPT !.config_file = ConfigFile(<<doc>>),
                                            !.h_docs = @ \cup {doc}]
         ELSE /\ Put(t, AfterSave(task[t], FALSE))
              /\ UNCHANGED batch

\* clear_auth, line 2080: default_config = AUTO_AUTH_CONFIG.copy()
ClearCopy(t) ==
    /\ task[t].op = "clear" /\ task[t].pc = "load"
    /\ Put(t, [task[t] EXCEPT !.pc = "save_open",
                              !.local = DefaultsCopy(batch.default_credentials),
                              !.h_after_all =
                                  \A u \in Tasks \ {t} : task[u].pc = "done"])
    /\ UNCHANGED batch

\* clear_auth, lines 2084-2095: the session file is removed when it exists
ClearRemove(t) ==
    /\ task[t].op = "clear" /\ task[t].pc = "remove"
    /\ \E ok \in BOOLEAN :
         IF ok \/ ~batch.session_file.exists
         THEN /\ Put(t, [task[t] EXCEPT !.pc = "done",
                                        !.outcome = Returned([success |-> TRUE])])
              /\ batch' = [batch EXCEPT !.session_file = NoSessionFile]
         ELSE /\ Put(t, [task[t] EXCEPT !.pc = "done",
                                        !.outcome = Returned([success |-> FALSE])])
              /\ UNCHANGED batch

\* the configurations a stored file may hold before the requests
StoredConfigs ==
    {Config(FALSE, Credentials("old@", "pw1"), TRUE),
     Config(FALSE, Credentials("old@", "pw2"), TRUE)}

Requests ==
    {NewRequest("update", d) : d \in UpdateData}
        \cup {NewRequest("get", Data(<<>>, <<>>, <<>>)),
              NewRequest("clear", Data(<<>>, <<>>, <<>>))}

ConfigInit ==
    /\ \E file \in {NoConfigFile} \cup {ConfigFile(<<c>>) : c \in StoredConfigs},
          session \in {NoSessionFile, SessionFile(<<"saved">>, "fresh")} :
         batch = [handler |-> "auth_routes", config_file |-> file,
                  session_file |-> session,
                  default_credentials |-> EmptyCredentials,
                  h_docs |-> {load_auth_config_file(file, EmptyCredentials).config}]
    /\ task \in [1..NumRequests -> Requests]

ConfigNext ==
    \/ \E t \in Tasks : GetAuthConfig(t)
    \/ \E t \in Tasks : UpdateLoad(t)
    \/ \E t \in Tasks : UpdateMutate(t)
    \/ \E t \in Tasks : SaveOpen(t)
    \/ \E t \in Tasks : SaveDump(t)
    \/ \E t \in Tasks : ClearCopy(t)
    \/ \E t \in Tasks : ClearRemove(t)

SpecConfig == ConfigInit /\ [][ConfigNext]_vars

-----------------------------------------------------------------------------
(* Properties *)

HasResult(s) == s.pending.kind = "returned"

Result(s) == s.pending.value

\* every element of sub occurs in list
Contains(list, sub) == \A i \in 1..Len(sub) : \E j \in 1..Len(list) : list[j] = sub[i]

RECURSIVE SumLen(_)
SumLen(seqs) == IF seqs = <<>> THEN 0 ELSE Len(Head(seqs)) + SumLen(Tail(seqs))

\* the task itself met an error
OwnFailure(s) == s.h_err # "none"

Products == batch.response.value.products

\* C1: fan-out isolation.  When the batch has been aggregated every task has
\* run to completion, there is one entry per task, and the success flag and
\* reviews_count of every task that met no error itself are those of its own
\* run (success, the reviews its own pages gave), whatever the other tasks
\* did; total_reviews is the sum of the reviews the tasks gathered.
C1_FanOutIsolation ==
    batch.pc = "done" =>
        /\ \A t \in Tasks : task[t].pc = "done"
        /\ Len(Products) = Cardinality(Tasks)
        /\ \A t \in Tasks :
             ~OwnFailure(task[t]) =>
                 /\ Products[t].success
                 /\ Products[t].reviews_count = Len(task[t].h_gathered)
                 /\ Products[t].reviews = task[t].h_gathered
        /\ batch.response.value.total_reviews
               = SumLen([t \in 1..Cardinality(Tasks) |-> task[t].h_gathered])

\* a batch in which task 1 failed terminally and its sibling reported the
\* reviews of its three pages
C1_Witness ==
    /\ batch.pc = "done"
    /\ \E t \in Tasks, u \in Tasks :
         /\ t < u
         /\ OwnFailure(task[t])
         /\ ~OwnFailure(task[u])
         /\ Products[u].success
         /\ Products[u].reviews_count = 15

\* C2: whenever extract_product_reviews ends because of an error (failed
\* initial navigation, an exception while scraping a page, an exception in
\* the pipeline), the result has success = false and its reviews list holds
\* every review extracted by the page loop before the error.
C2_ErrorGivesFailedResultWithPartialReviews ==
    \A t \in Tasks :
        (task[t].op = "reviews" /\ task[t].pc = "done" /\ task[t].h_err # "none") =>
            /\ task[t].outcome.kind = "returned"
            /\ ~task[t].outcome.value.success
            /\ Contains(task[t].outcome.value.reviews, task[t].h_gathered)

\* C3: when an operation has returned, the browser it launched is closed
\* and the driver it started is stopped.
C3_NoBrowserOrDriverLeftOpen ==
    \A t \in Tasks :
        task[t].pc = "done" =>
            /\ task[t].proc \in {"none", "closed"}
            /\ task[t].drv \in {"none", "stopped"}

\* C4: an error raised by browser.close() or playwright.stop() is never the
\* outcome: the operation ends with the result (or error) it had chosen
\* before the teardown.
C4_TeardownErrorIsNeverTheOutcome ==
    \A t \in Tasks :
        (task[t].pc = "done" /\ task[t].h_teardown_err) =>
            task[t].outcome = task[t].pending

C6_SinglePageFromProductPage ==
    \A t \in Tasks :
        (/\ task[t].op = "reviews"
         /\ task[t].max_pages = 1
         /\ task[t].h_pp_seen
         /\ task[t].h_pp_valid >= 1)
        => /\ HasResult(task[t])
           /\ Result(task[t]).success
           /\ Result(task[t]).total_reviews_found = task[t].h_pp_valid
           /\ Len(Result(task[t]).reviews) = task[t].h_pp_valid
           /\ Result(task[t]).source = "product_page"
           /\ Result(task[t]).pages_scraped = 1
           /\ ~task[t].h_reviews_nav
           /\ task[t].h_iter = 0
           /\ (task[t].pc = "done" => task[t].outcome = task[t].pending)

\* the scenario: five valid reviews on the product page, max_pages = 1
C6_Witness ==
    \E t \in Tasks :
        /\ task[t].pc = "done"
        /\ task[t].max_pages = 1
        /\ task[t].h_pp_valid = 5
        /\ task[t].outcome.value.total_reviews_found = 5
        /\ task[t].outcome.value.source = "product_page"

\* C7: with max_pages = 3 (or more), when pages 1 and 2 each gave 10
\* reviews and the next-page controls found after page 2 are marked disabled
\* (none is enabled), the run ends there: pages_scraped = 2,
\* total_reviews_found = 20, and no third page is fetched.
C7_DisabledNextStopsPagination ==
    \A t \in Tasks :
        (/\ task[t].op = "reviews"
         /\ task[t].max_pages >= 3
         /\ task[t].h_chain = <<10, 10>>
         /\ "disabled" \in task[t].h_seen
         /\ "enabled" \notin task[t].h_seen
         /\ task[t].pc # "locate_next")
        => /\ HasResult(task[t])
           /\ Result(task[t]).success
           /\ Result(task[t]).pages_scraped = 2
           /\ Result(task[t]).total_reviews_found = 20
           /\ Len(Result(task[t]).reviews) = 20
           /\ task[t].h_iter = 2

C7_Witness ==
    \E t \in Tasks :
        /\ task[t].pc = "done"
        /\ task[t].max_pages = 3
        /\ task[t].h_chain = <<10, 10>>
        /\ task[t].h_seen = {"disabled"}
        /\ task[t].outcome.value.total_reviews_found = 20

\* C8: a next-page control is clicked only if neither it nor its parent is
\* marked disabled; the candidates are tried in list order; and a run that
\* ends because no next page was reached, or because max_pages was reached,
\* returns success = true, no error, and all the reviews accumulated.
C8_NextControlAndNormalTermination ==
    \A t \in Tasks :
        /\ task[t].h_clicked # <<>> =>
              /\ ~task[t].h_clicked[1].button_disabled
              /\ ~task[t].h_clicked[1].parent_disabled
        /\ \A i \in 1..Len(task[t].h_order) : task[t].h_order[i] = i
        /\ task[t].pc = "locate_next" => Len(task[t].h_order) = task[t].sel - 1
        /\ task[t].h_terminal \in {"end_of_results", "max_pages_reached"} =>
              /\ HasResult(task[t])
              /\ Result(task[t]).success
              /\ "error" \notin DOMAIN Result(task[t])
              /\ Result(task[t]).reviews = task[t].h_gathered
              /\ (task[t].pc = "done" => task[t].outcome = task[t].pending)

\* a run that clicked an enabled control after page 1, found only a disabled
\* one after page 2 and ended with the 15 reviews of both pages
C8_Witness ==
    \E t \in Tasks :
        /\ task[t].pc = "done"
        /\ task[t].h_terminal = "end_of_results"
        /\ task[t].h_clicked # <<>>
        /\ task[t].h_seen = {"disabled"}
        /\ Len(task[t].outcome.value.reviews) = 15

\* a navigation of the fetch failed for good: the product page after its
\* retries, or the direct navigation to the reviews view
NavigationGaveUp(s) ==
    \/ s.h_terminal = "nav_failed"
    \/ s.h_reviews_nav /\ ~s.h_on_reviews

\* C9: every navigation of the fetch is retried a bounded number of times,
\* and when one fails for good the product's result has success = false and
\* keeps the reviews gathered before the failure.
C9_NavigationFailureFailsTheProduct ==
    \A t \in Tasks :
        /\ task[t].attempt <= max_retries
        /\ (task[t].op = "reviews" /\ task[t].pc = "done" /\ NavigationGaveUp(task[t])) =>
              /\ task[t].outcome.kind = "returned"
              /\ ~task[t].outcome.value.success
              /\ Contains(task[t].outcome.value.reviews, task[t].h_gathered)

\* the pages a result was built from
PagesProcessed(s) == IF s.h_terminal = "product_page" THEN 1 ELSE s.h_iter

\* C10: at most max_reviews reviews of each processed page are added to the
\* result, so a result over P pages holds at most P * max_reviews reviews.
C10_MaxReviewsCapEnforced ==
    \A t \in Tasks :
        (task[t].op = "reviews" /\ HasResult(task[t])) =>
            /\ Len(Result(task[t]).reviews) <= PagesProcessed(task[t]) * task[t].max_reviews
            /\ \A i \in 1..Len(task[t].h_chain) : task[t].h_chain[i] <= task[t].max_reviews

\* C11: for max_pages > 1, a result with source = "reviews_page" was
\* extracted on a reviews view: the session was on one (the input URL was a
\* reviews view, or the direct navigation to it succeeded) before the first
\* page was extracted.
C11_ExtractionRunsOnReviewsView ==
    \A t \in Tasks :
        (/\ task[t].op = "reviews"
         /\ task[t].max_pages > 1
         /\ HasResult(task[t])
         /\ "source" \in DOMAIN Result(task[t])
         /\ Result(task[t]).source = "reviews_page")
        => task[t].h_on_reviews

\* the task is inside its call of get_browser
InGetBrowser(s) ==
    s.pc \in {"gb_launch", "gb_cookies", "gb_validate", "gb_goto", "al_entry",
              "al_home", "al_signin", "al_alt", "al_errpage", "al_email",
              "al_continue", "al_password", "al_submit", "al_poll", "al_final"}

HasStep(g, step) == \E k \in 1..Len(g.h_steps) : g.h_steps[k] = step

\* C12: when a poll detects a block indicator the login stops at once (no
\* further poll, no second fill or submission, no session write) and the
\* value it returns differs from the value a plain failure returns.
C12_BlockedStopsWithDistinctStatus ==
    \A t \in Tasks :
        task[t].gb.h_status = "blocked" =>
            /\ ~InGetBrowser(task[t])
            /\ task[t].gb.h_email_fills = 1
            /\ task[t].gb.h_password_fills = 1
            /\ task[t].gb.h_submits = 1
            /\ task[t].gb.h_writes = 0
            /\ task[t].gb.login_success # LoginFails(task[t]).gb.login_success

\* C13: when restored cookies were validated by one navigation that showed a
\* signed-in account region, get_browser has returned an authenticated
\* session after that single navigation, without sign-in click, fill,
\* submission, login or session write.
C13_FastPathSkipsLogin ==
    \A t \in Tasks :
        task[t].gb.h_validated = <<TRUE>> =>
            /\ ~InGetBrowser(task[t])
            /\ task[t].browser
            /\ task[t].gb.h_fast
            /\ task[t].gb.h_status = "authenticated"
            /\ task[t].gb.h_gotos = 1
            /\ task[t].gb.h_clicks = 0
            /\ task[t].gb.h_email_fills = 0
            /\ task[t].gb.h_password_fills = 0
            /\ task[t].gb.h_submits = 0
            /\ task[t].gb.h_steps = <<>>
            /\ task[t].gb.login_success = <<>>
            /\ task[t].gb.h_writes = 0

\* a review extraction that finished on a session obtained by the fast path
\* from a fresh session file
C13_Witness ==
    \E t \in Tasks :
        /\ task[t].pc = "done"
        /\ task[t].op = "reviews"
        /\ task[t].gb.h_fast
        /\ batch.session_file = SessionFile(<<"saved">>, "fresh")
        /\ task[t].outcome.kind = "returned"
        /\ task[t].outcome.value.success

\* the entry guard applies: authentication is disabled or a credential is empty
GuardApplies(auth_config) ==
    ~auth_config.enabled \/ auth_config.email = <<>> \/ auth_config.password = <<>>

\* C14: when authentication is disabled or a credential is empty, no sign-in
\* click, fill, submission or session write happens, the attempt ends as
\* Anonymous, and the pipeline gets its session (the attempt never ends as
\* anything else, an error included).
C14_EntryGuardLeavesPipelineAnonymous ==
    \A t \in Tasks :
        GuardApplies(batch.auth_config) =>
            /\ task[t].gb.h_clicks = 0
            /\ task[t].gb.h_email_fills = 0
            /\ task[t].gb.h_password_fills = 0
            /\ task[t].gb.h_submits = 0
            /\ task[t].gb.h_writes = 0
            /\ task[t].gb.h_status \in {"none", "anonymous"}
            /\ (task[t].gb.h_status = "anonymous" => task[t].browser)

\* C15: the session file changes only in a step in which the login returns
\* success with the persistent-session flag set, and a save that succeeds
\* leaves exactly the current cookies and timestamp (one that fails part-way
\* leaves no SessionState); an attempt that ended blocked, failed or
\* anonymous has written nothing.
C15_SessionWrittenOnlyWhenAuthenticated ==
    /\ [](\A t \in Tasks :
            task[t].gb.h_status \in {"blocked", "failed", "anonymous"} =>
                task[t].gb.h_writes = 0)
    /\ [][batch'.session_file # batch.session_file =>
            /\ batch.auth_config.persistent_session
            /\ batch'.session_file \in {SavedNow, TruncatedFile}
            /\ \E t \in Tasks :
                 /\ task[t].pc = "al_final"
                 /\ task'[t].gb.login_success = <<TRUE>>
                 /\ task'[t].gb.h_status = "authenticated"
                 /\ task'[t].gb.h_writes = 1]_vars

\* a login over a stale session file that ended authenticated and replaced
\* the file
C15_Witness ==
    \E t \in Tasks :
        /\ task[t].pc = "done"
        /\ task[t].gb.login_success = <<TRUE>>
        /\ task[t].gb.h_writes = 1
        /\ batch.auth_config.persistent_session
        /\ batch.session_file = SavedNow

\* C16: the login polls at most PollIterations times, and a login that
\* polled without confirming a success indicator (a signed-in name in the
\* account region) or a block indicator ends Failed.
C16_PollingBoundedElseFailed ==
    \A t \in Tasks :
        /\ task[t].gb.i <= PollIterations
        /\ (/\ task[t].gb.login_success # <<>>
            /\ HasStep(task[t].gb, "poll")
            /\ task[t].gb.h_evidence # "success_indicator"
            /\ task[t].gb.h_status # "blocked")
           => /\ task[t].gb.login_success = <<FALSE>>
              /\ task[t].gb.h_status = "failed"

\* C17: the steps of a login happen in the order home navigation, sign-in
\* click, email fill, continue click, password fill, submit, polling; no
\* step happens unless the mandatory steps before it did; and a login that
\* went to the home page and returned before polling ended Failed.
C17_SlowPathOrdering ==
    \A t \in Tasks :
        LET g == task[t].gb
        IN  /\ \A j \in 1..Len(g.h_steps), k \in 1..Len(g.h_steps) :
                  j < k => StepRank(g.h_steps[j]) < StepRank(g.h_steps[k])
            /\ HasStep(g, "signin_click") => HasStep(g, "home")
            /\ HasStep(g, "email") => HasStep(g, "signin_click")
            /\ HasStep(g, "continue") => HasStep(g, "email")
            /\ HasStep(g, "password") => HasStep(g, "email")
            /\ HasStep(g, "submit") => HasStep(g, "password")
            /\ HasStep(g, "poll") => HasStep(g, "submit")
            /\ (g.h_email_fills > 0) = HasStep(g, "email")
            /\ (g.h_password_fills > 0) = HasStep(g, "password")
            /\ (g.h_clicks > 0) = HasStep(g, "signin_click")
            /\ (g.login_success # <<>> /\ HasStep(g, "home") /\ ~HasStep(g, "poll")) =>
                  /\ g.login_success = <<FALSE>>
                  /\ g.h_status = "failed"

\* a login that filled the email and clicked continue, found no password
\* field with any candidate, and ended Failed without submitting
C17_Witness ==
    \E t \in Tasks :
        /\ ~InGetBrowser(task[t])
        /\ task[t].gb.h_steps = <<"home", "signin_click", "email", "continue">>
        /\ task[t].gb.h_status = "failed"
        /\ task[t].gb.h_password_fills = 0
        /\ task[t].gb.h_submits = 0

\* C18: however the authentication attempt ends short of Authenticated
\* (blocked, failed, or a navigation that timed out), get_browser has
\* returned a session to its caller, which goes on with the extraction.
C18_LoginFailureDoesNotFailTheProduct ==
    \A t \in Tasks :
        task[t].gb.h_status \in {"blocked", "failed", "navigation_error"} =>
            /\ ~InGetBrowser(task[t])
            /\ task[t].browser
            /\ task[t].proc \in {"open", "closed", "close_failed"}
            /\ task[t].outcome.kind # "raised" \/ task[t].h_teardown_err

\* the candidate the claim selects: the first, in list order, whose element
\* has a non-empty text that passes the field's validation
Accepted(field, els) ==
    {k \in 1..NumSelectors(field) :
        els[k].present /\ els[k].text # <<>> /\ Valid(field, els[k].text)}

FirstAccepted(field, els) ==
    CHOOSE k \in Accepted(field, els) : \A h \in Accepted(field, els) : k <= h

\* C19: the value of every field cascade is that of the first candidate, in
\* list order, whose match is non-empty and passes the field's validation
\* (empty when there is none): an element with empty text does not stop the
\* cascade.
C19_FirstValidatedNonEmptyCandidate ==
    \A t \in Tasks :
        (task[t].op = "field" /\ task[t].pc = "done") =>
            task[t].value =
                IF Accepted(task[t].field, task[t].doc) = {} THEN <<>>
                ELSE Value(task[t].field,
                           task[t].doc[FirstAccepted(task[t].field, task[t].doc)].text)

\* the text the code resolves for a container
BodyText(container) == ReviewText(container, 1)

MatchingSelectors(doc) ==
    {k \in 1..NumReviewSelectors : \E i \in 1..Len(doc) : k \in doc[i].matches}

\* C21: the reviews of a page come from the containers matched by the first
\* container selector, in list order, that matches anything, and from no
\* other container; a page that no selector matches gives the empty list.
C21_FirstMatchingSelectorDecides ==
    \A t \in Tasks :
        (task[t].op = "soup" /\ task[t].pc \in {"again", "done"}) =>
            LET doc == task[t].doc
                texts == {task[t].reviews[k].text : k \in 1..Len(task[t].reviews)}
            IN  IF MatchingSelectors(doc) = {} THEN task[t].reviews = <<>>
                ELSE LET first == CHOOSE k \in MatchingSelectors(doc) :
                                      \A h \in MatchingSelectors(doc) : k <= h
                     IN  /\ \A i \in 1..Len(doc) :
                               (first \in doc[i].matches /\ BodyText(doc[i]) # <<>>)
                                   <=> BodyText(doc[i]) \in texts
                         /\ Len(task[t].reviews)
                              = Cardinality({i \in 1..Len(doc) :
                                    first \in doc[i].matches /\ BodyText(doc[i]) # <<>>})

\* a page with a <div class="review"> block before two <li data-hook="review">
\* blocks: only the two <li> blocks are reviews
C21_Witness ==
    \E t \in Tasks :
        /\ task[t].op = "soup" /\ task[t].pc = "done"
        /\ task[t].doc = <<DivReview(<<0, 1>>), LiReview(<<0, 2>>), LiReview(<<0, 3>>)>>
        /\ task[t].reviews = <<[text |-> <<0, 2>>], [text |-> <<0, 3>>]>>

\* no candidate of the cascade finds an element
AllMiss(els) == \A k \in DOMAIN els : ~els[k].present

\* C22: a field whose every candidate misses is the empty string, and the
\* product record is still returned with success = true, no error, and every
\* other field resolved by its own cascade.
C22_MissingFieldNeverFailsTheRecord ==
    \A t \in Tasks :
        (task[t].op = "details_soup" /\ task[t].pc = "done") =>
            /\ task[t].details.kind = "returned"
            /\ task[t].details.value.success
            /\ "error" \notin DOMAIN task[t].details.value
            /\ \A f \in DetailFieldNames :
                 /\ AllMiss(task[t].doc[f]) => task[t].details.value[f] = <<>>
                 /\ task[t].details.value[f] = select_field(f, task[t].doc[f], 1)

\* a product page without any title element whose price is found by the
\* second candidate only
C22_Witness ==
    \E t \in Tasks :
        /\ task[t].op = "details_soup" /\ task[t].pc = "done"
        /\ AllMiss(task[t].doc.title)
        /\ task[t].details.value.success
        /\ task[t].details.value.title = <<>>
        /\ task[t].details.value.price = <<<<"$", 2>>>>
        /\ task[t].details.value.rating = <<<<"num", 41>>>>

\* C23: the price is empty or a text with a currency marker, and it is the
\* text of the first candidate, in list order, whose text has one: a
\* candidate without the marker is skipped.
C23_PriceHasCurrencyMarker ==
    \A t \in Tasks :
        (task[t].op = "field" /\ task[t].field = "price" /\ task[t].pc = "done") =>
            LET els == task[t].doc
                marked == {k \in DOMAIN els : els[k].present /\ HasDollar(els[k].text)}
            IN  /\ task[t].value = <<>> \/ HasDollar(task[t].value)
                /\ marked = {} => task[t].value = <<>>
                /\ marked # {} =>
                     \E k \in marked : /\ \A h \in marked : k <= h
                                       /\ task[t].value = els[k].text

\* the first candidate reads "word", the second has no element, the third
\* an amount
C23_Witness ==
    \E t \in Tasks :
        /\ task[t].op = "field" /\ task[t].field = "price" /\ task[t].pc = "done"
        /\ task[t].doc[1] = El(<<<<"word", 1>>>>)
        /\ task[t].doc[2] = NoEl
        /\ task[t].doc[3] = El(<<<<"$", 3>>>>)
        /\ task[t].value = <<<<"$", 3>>>>

RatedAtLeast(doc, m) ==
    {i \in 1..Len(doc.detail_results) :
        /\ doc.detail_results[i].kind = "returned"
        /\ doc.detail_results[i].value.rating # <<>>
        /\ doc.detail_results[i].value.rating[1][1] = "num"
        /\ doc.detail_results[i].value.rating[1][2] >= m}

\* the positions whose rating is absent or not a number, or whose detail
\* fetch failed
Unrated(doc) ==
    {i \in 1..Len(doc.detail_results) :
        \/ doc.detail_results[i].kind = "raised"
        \/ /\ doc.detail_results[i].kind = "returned"
           /\ \/ doc.detail_results[i].value.rating = <<>>
              \/ doc.detail_results[i].value.rating[1][1] # "num"}

\* C25: with a minimum rating m > 0 a product passes exactly when its rating
\* is a number >= m; a product without a usable rating passes only when
\* m <= 0; without a filter every product passes; the passing products keep
\* the input order.
C25_RatingFilter ==
    \A t \in Tasks :
        (task[t].op = "filter" /\ task[t].pc = "done" /\ task[t].details.kind = "none") =>
            LET doc == task[t].doc
                out == task[t].value
                kept == {out[k] : k \in 1..Len(out)}
                arg == doc.min_rating
            IN  /\ \A j, k \in 1..Len(out) : j < k => out[j] < out[k]
                /\ arg.kind = "empty" => out = doc.basic_products
                /\ (arg.kind = "number" /\ arg.value > 0) => kept = RatedAtLeast(doc, arg.value)
                /\ arg.kind = "number" =>
                     /\ \A i \in Unrated(doc) : i \in kept => arg.value <= 0
                     /\ arg.value <= 0 => kept = 1..Len(doc.basic_products)

\* the minimum is 4.0 and the products are rated 4.5, 3.0 and not at all
C25_Witness ==
    \E t \in Tasks :
        /\ task[t].op = "filter" /\ task[t].pc = "done"
        /\ task[t].doc.min_rating = MinArg(40)
        /\ task[t].doc.detail_results[1] = DetailResultOf(1, "r45")
        /\ task[t].doc.detail_results[2] = DetailResultOf(2, "r30")
        /\ task[t].doc.detail_results[3] = DetailResultOf(3, "absent")
        /\ task[t].value = <<1>>

RECURSIVE SumCounts(_)
SumCounts(entries) ==
    IF entries = <<>> THEN 0 ELSE Head(entries).reviews_count + SumCounts(Tail(entries))

\* C26: in the aggregate, total_products is the number of entries,
\* total_reviews the sum of their reviews_count, every reviews_count the
\* length of the entry's reviews, and entry i is the one of task i, with the
\* reviews task i returned, in whatever order the tasks finished.
C26_AggregateTotals ==
    batch.pc = "done" =>
        /\ batch.response.value.total_products = Len(Products)
        /\ batch.response.value.total_reviews = SumCounts(Products)
        /\ Len(Products) = Cardinality(Tasks)
        /\ \A i \in 1..Len(Products) :
             /\ Products[i].reviews_count = Len(Products[i].reviews)
             /\ Products[i].product = i
             /\ task[i].outcome.kind = "returned" =>
                    Products[i].reviews = task[i].outcome.value.reviews
             /\ task[i].outcome.kind = "raised" => Products[i].reviews = <<>>

\* the first product gave the reviews of three pages, the second those of one
C26_Witness ==
    /\ batch.pc = "done"
    /\ Products[1].reviews_count = 15
    /\ Products[2].reviews_count = 5
    /\ batch.response.value.total_reviews = 20
    /\ batch.response.value.total_products = 2

\* C27: when every review task of the batch ended on an error of its own
\* without having collected a review, the aggregate is still returned,
\* without a top-level error, with one entry per product, each with
\* success = false, total_reviews = 0 and total_products the number of
\* products.
C27_AggregateWhenAllFail ==
    (batch.pc = "done"
        /\ \A t \in Tasks : OwnFailure(task[t]) /\ task[t].h_gathered = <<>>) =>
        /\ batch.response.kind = "returned"
        /\ batch.response.value.success
        /\ "error" \notin DOMAIN batch.response.value
        /\ Len(Products) = Cardinality(Tasks)
        /\ batch.response.value.total_products = Cardinality(Tasks)
        /\ batch.response.value.total_reviews = 0
        /\ \A i \in 1..Len(Products) : ~Products[i].success

\* C28: every entry has a success flag, every entry with success = false
\* has an error field, and an entry without reviews has reviews_count = 0.
C28_FailedEntryCarriesCause ==
    batch.pc = "done" =>
        \A i \in 1..Len(Products) :
            /\ "success" \in DOMAIN Products[i]
            /\ ~Products[i].success => "error" \in DOMAIN Products[i]
            /\ Products[i].reviews = <<>> => Products[i].reviews_count = 0

\* the file carries a timestamp the program could read
Dated(file) == file.exists /\ file.timestamp \notin {"none", "unreadable"}

\* C30: while the session file is more than 24 hours old,
\* load_session_cookies returns no cookies, get_browser restores none, makes
\* no fast-path check and goes on to the login; a file not older than 24
\* hours has its cookies returned unchanged.
C30_StaleSessionIsAbsent ==
    /\ \A file \in SessionFiles \cup {SavedNow} :
         Dated(file) =>
            /\ AgeHours(file.timestamp) > 24 => load_session_cookies(file) = <<>>
            /\ AgeHours(file.timestamp) <= 24 => load_session_cookies(file) = file.cookies
    /\ \A t \in Tasks :
         (/\ Dated(batch.session_file)
          /\ AgeHours(batch.session_file.timestamp) > 24
          /\ task[t].pc \notin {"gb_launch", "gb_cookies"}) =>
            /\ ~task[t].gb.cookies_loaded
            /\ task[t].pc # "gb_validate"
            /\ task[t].gb.h_validated = <<>>
            /\ ~task[t].gb.h_fast
    /\ \A t \in Tasks :
         task[t].gb.cookies_loaded =>
            /\ Dated(batch.session_file) => AgeHours(batch.session_file.timestamp) <= 24
            /\ batch.session_file.exists

\* with a session file saved 25 hours ago the task has filled in the
\* password of the login form
C30_Witness ==
    \E t \in Tasks :
        /\ batch.session_file = SessionFile(<<"saved">>, "stale")
        /\ batch.auth_config.enabled /\ batch.auth_config.persistent_session
        /\ task[t].pc = "al_submit"
        /\ task[t].gb.h_password_fills = 1
        /\ ~task[t].gb.cookies_loaded

\* C39: load_session_cookies returns cookies only for a file whose
\* timestamp is at most 24 hours old; with a file that has no timestamp no
\* cookies are restored.
C39_NoTimestampIsNotFresh ==
    /\ load_session_cookies(batch.session_file) # <<>> =>
          /\ Dated(batch.session_file)
          /\ AgeHours(batch.session_file.timestamp) <= 24
    /\ \A t \in Tasks :
         (/\ batch.session_file.exists
          /\ batch.session_file.timestamp = "none"
          /\ task[t].pc \notin {"gb_launch", "gb_cookies"}) =>
            ~task[t].gb.cookies_loaded

\* the iterations of the page loop whose page gave at least one review
YieldingPages(s) == {k \in 1..Len(s.h_chain) : s.h_chain[k] > 0}

\* C38: in a result with success = true, total_reviews_found is the length
\* of reviews and 0 <= pages_scraped <= max_pages; when the source is the
\* reviews page, pages_scraped is the number of iterated pages that gave a
\* review; pages_scraped = 0 exactly when reviews is empty.
C38_SuccessResultCounts ==
    \A t \in Tasks :
        (/\ task[t].op = "reviews"
         /\ task[t].pending.kind = "returned"
         /\ task[t].pending.value.success) =>
            LET r == task[t].pending.value
            IN  /\ r.total_reviews_found = Len(r.reviews)
                /\ r.pages_scraped >= 0
                /\ r.pages_scraped <= task[t].max_pages
                /\ r.source = "reviews_page" =>
                      /\ r.pages_scraped = Cardinality(YieldingPages(task[t]))
                      /\ Len(task[t].h_chain) <= task[t].max_pages
                /\ r.source = "product_page" => r.pages_scraped = 1
                /\ r.pages_scraped = 0 <=> r.reviews = <<>>

\* three pages were iterated, the second gave no review: two pages counted
C38_Witness ==
    \E t \in Tasks :
        /\ task[t].op = "reviews" /\ task[t].pc = "done"
        /\ task[t].outcome.kind = "returned"
        /\ task[t].outcome.value.success
        /\ Len(task[t].h_chain) = 3
        /\ task[t].h_chain[2] = 0
        /\ task[t].outcome.value.pages_scraped = 2
        /\ Len(task[t].outcome.value.reviews) > 0

\* the attempts of a call of safe_navigate, in order
Attempts(s) == SelectSeq(s.h_trail, LAMBDA e : e # "delay")

\* C36: human_scroll never raises; when no step of it fails it makes
\* between 1 and max_scrolls scroll steps (and at most one scroll back);
\* whether it failed or not, the caller goes on and extracts the reviews of
\* the page as it is.
C36_ScrollFailureNotFatal ==
    \A t \in Tasks :
        task[t].op = "human_scroll" =>
            /\ task[t].outcome.kind # "raised"
            /\ task[t].h_scrolls <= task[t].max_scrolls
            /\ task[t].h_back <= 1
            /\ (task[t].pc \in {"caller", "done"} /\ ~task[t].h_failed) =>
                  /\ task[t].h_scrolls >= 1
                  /\ task[t].h_scrolls = task[t].n
            /\ task[t].pc = "done" =>
                  task[t].outcome = Returned(extract_reviews_from_soup(task[t].doc, <<>>))

\* the second scroll of a call failed and the review of the page was extracted
C36_Witness ==
    \E t \in Tasks :
        /\ task[t].op = "human_scroll" /\ task[t].pc = "done"
        /\ task[t].h_failed
        /\ task[t].h_scrolls = 1
        /\ task[t].n = 2
        /\ task[t].outcome = Returned(<<[text |-> <<0, 1>>]>>)

\* C37: safe_navigate makes at most max_retries + 1 attempts and never
\* raises; it returns True at the first attempt that succeeds, False only
\* after max_retries + 1 failed attempts, and it waits between two
\* consecutive attempts and not after the last.
C37_SafeNavigateBounded ==
    \A t \in Tasks :
        task[t].op = "safe_navigate" =>
            LET trail == task[t].h_trail
                tries == Attempts(task[t])
            IN  /\ Len(tries) <= task[t].max_retries + 1
                /\ task[t].outcome.kind # "raised"
                /\ \A k \in 1..Len(trail) : (trail[k] = "delay") <=> (k % 2 = 0)
                /\ \A k \in 1..(Len(tries) - 1) : tries[k] # "ok"
                /\ task[t].pc = "done" =>
                      /\ task[t].outcome.kind = "returned"
                      /\ Len(trail) = 2 * Len(tries) - 1
                      /\ task[t].outcome.value = TRUE <=> tries[Len(tries)] = "ok"
                      /\ task[t].outcome.value = FALSE =>
                            /\ Len(tries) = task[t].max_retries + 1
                            /\ \A k \in 1..Len(tries) : tries[k] # "ok"

\* with max_retries = 2 the third attempt succeeded after two delays
C37_Witness ==
    \E t \in Tasks :
        /\ task[t].op = "safe_navigate" /\ task[t].pc = "done"
        /\ task[t].max_retries = 2
        /\ task[t].h_trail = <<"goto_fails", "delay", "load_state_fails", "delay", "ok">>
        /\ task[t].outcome = Returned(TRUE)

\* C35: auth_status never attempts a login: no sign-in click, no fill, no
\* submission, no step of auto_login_amazon, no write of the session file;
\* with authentication disabled it answers enabled = false and
\* is_logged_in = false without starting a browser.
C35_AuthStatusNeverLogsIn ==
    \A t \in Tasks :
        task[t].op = "auth_status" =>
            /\ task[t].pc \in {"as_load", "gb_launch", "gb_cookies", "as_check",
                               "as_finally", "done"}
            /\ task[t].gb.h_clicks = 0
            /\ task[t].gb.h_email_fills = 0
            /\ task[t].gb.h_password_fills = 0
            /\ task[t].gb.h_submits = 0
            /\ task[t].gb.h_steps = <<>>
            /\ task[t].gb.h_writes = 0
            /\ task[t].gb.h_gotos = 0
            /\ batch.session_file \in SessionFiles
            /\ batch.auth_config \in AuthConfigs
            /\ ~batch.auth_config.enabled =>
                  /\ task[t].pc \in {"as_load", "done"}
                  /\ task[t].drv = "none" /\ task[t].proc = "none"
                  /\ ~task[t].browser
                  /\ task[t].pc = "done" =>
                        /\ task[t].outcome.kind = "returned"
                        /\ ~task[t].outcome.value.enabled
                        /\ ~task[t].outcome.value.is_logged_in

\* credentials are configured and no session is saved: the status is
\* reported as not logged in, with a browser that was opened and closed
C35_Witness ==
    \E t \in Tasks :
        /\ task[t].op = "auth_status" /\ task[t].pc = "done"
        /\ batch.auth_config.enabled
        /\ batch.auth_config.email # <<>> /\ batch.auth_config.password # <<>>
        /\ batch.session_file = NoSessionFile
        /\ task[t].proc = "closed"
        /\ task[t].outcome.kind = "returned"
        /\ task[t].outcome.value.enabled
        /\ ~task[t].outcome.value.is_logged_in

\* the cookies are the complete set of one session
OneWriter(cookies) ==
    \E w \in Tasks : cookies = [k \in 1..task[w].doc_len |-> w]

\* C31: each session reads the session file at most once and writes it at
\* most once; a load returns no cookies or the complete cookies of one
\* writer; when every session has ended and no write failed, a file that
\* was written holds the complete document of one writer.
C31_SessionFileUnderConcurrency ==
    /\ \A t \in Tasks :
         task[t].op = "session" =>
            /\ task[t].h_reads <= 1
            /\ task[t].h_writes <= 1
            /\ task[t].saved_cookies = <<>> \/ OneWriter(task[t].saved_cookies)
    /\ (/\ \A t \in Tasks : task[t].op = "session" /\ task[t].pc = "done"
                            /\ ~task[t].h_write_failed
        /\ batch.session_file.exists) =>
          \E w \in Tasks : batch.session_file.content = Document(w, task[w].doc_len)

\* C32: a reader of the configuration gets a document that was the stored
\* configuration (the one before the requests, or one an update or a clear
\* wrote in full), and the credentials of AUTO_AUTH_CONFIG stay empty.
C32_ConfigReplacedAsAWhole ==
    /\ batch.default_credentials = EmptyCredentials
    /\ \A t \in Tasks :
         (task[t].op = "get" /\ task[t].pc = "done") =>
            task[t].h_observed[1] \in task[t].h_legit

\* C33: when clear_auth has saved and answered with success, every other
\* request having ended before it began, the stored configuration is the original
\* defaults, the session file does not exist, and the configuration the
\* next session loads has no credentials (its login guard applies).
C33_ClearAuthRestoresDefaults ==
    \A t \in Tasks :
        (/\ task[t].op = "clear" /\ task[t].pc = "done"
         /\ task[t].h_after_all
         /\ task[t].saved /\ task[t].outcome.value.success) =>
            /\ batch.config_file = ConfigFile(<<OriginalDefaults>>)
            /\ ~batch.session_file.exists
            /\ load_auth_config_file(batch.config_file, batch.default_credentials).config.credentials
                   = EmptyCredentials

\* C34: the response of GET /auth-config has no password field, and it is
\* the response the same configuration with any other non-empty password
\* would give.
C34_ResponseIndependentOfPassword ==
    \A t \in Tasks :
        (task[t].op = "get" /\ task[t].pc = "done") =>
            LET config == task[t].h_observed[1]
                r == task[t].outcome.value
            IN  /\ DOMAIN r.config = {"enabled", "email", "persistent_session", "has_password"}
                /\ r.config.email = config.credentials.email
                /\ r.config.has_password = (config.credentials.password # "")
                /\ config.credentials.password # "" =>
                      \A pw \in {"pw1", "pw2", "pw3"} :
                          r = get_response([config EXCEPT !.credentials.password = pw])

\* the stored password is "pw2" and the response says has_password
C34_Witness ==
    \E t \in Tasks :
        /\ task[t].op = "get" /\ task[t].pc = "done"
        /\ task[t].h_observed[1].credentials.password = "pw2"
        /\ task[t].outcome.value.config.has_password
        /\ task[t].outcome.value.config.email = "new@"

====
